---- MODULE Spec2Model ----
(***************************************************************************)
(* SmartBuddy (src/app.py): the query pipeline of ChatBot.process_query    *)
(* with the stores it reads and writes (info.json, notes_metadata.json,    *)
(* knowledge_base.json, unanswered_queries.json) and the admin handlers    *)
(* that change those stores.                                               *)
(*                                                                         *)
(* A Python str is modelled as a sequence of one-character strings, so     *)
(* that lower(), strip(), re.sub, split(), the `in` substring test and     *)
(* difflib's matching blocks are computed character by character.          *)
(* A Python dict is a sequence of entries in insertion order.              *)
(* The timestamps asked_at, created_at and updated_at are written and      *)
(* displayed but never read by the pipeline, and are left out; a note's    *)
(* uploaded_at, which search_notes sorts by, is a clock tick.              *)
(*                                                                         *)
(* Spec, SpecKnowledge and SpecNotes run one script at a time: a chat      *)
(* prompt or an admin form is handled from its loads to its save in one    *)
(* step. SpecSessions splits _handle_unknown_query and the admin's delete  *)
(* at their load of unanswered_queries.json, for scripts that run at the   *)
(* same time. SpecExpand and SpecText call expand_synonyms,                *)
(* preprocess_text and fuzzy_match on their own, on inputs drawn from      *)
(* bounded sets; last then holds the call and what it returned.            *)
(* SpecMatch runs the chat over records whose keys, values and keywords    *)
(* tie or overlap. SpecChat is one browser session with its sidebar: the   *)
(* prompts, New Chat and the load of a chat, with the files of data/chats; *)
(* the chat files keep their timestamps as clock ticks. SpecAdmin is the   *)
(* same session with the admin login and the panel's navigation, over      *)
(* auth.json. SpecSave takes one DataManager.save_json call statement by   *)
(* statement; in every other specification a save is one step.             *)
(***************************************************************************)
EXTENDS Integers, Sequences, FiniteSets, TLC

VARIABLES
    synonyms,     \* NLPProcessor.synonyms: the table loaded once at construction
    info,         \* data/info.json: category name -> sequence of items
    notes,        \* data/notes_metadata.json: sequence of note records
    knowledge,    \* data/knowledge_base.json: sequence of Q&A entries
    unanswered,   \* data/unanswered_queries.json: sequence of logged queries
    now,          \* datetime.datetime.now(), in ticks
    last,         \* the call made by the step that led here, and its result
    sess,         \* the script runs in progress: what each has loaded
    chats,        \* data/chats: chat id -> chat_data of the chat's file
    auth,         \* data/auth.json
    session,      \* st.session_state of the browser session
    save          \* the save_json call in progress: its position and its files

vars == <<synonyms, info, notes, knowledge, unanswered, now, last, sess,
          chats, auth, session, save>>

-----------------------------------------------------------------------------
(* Bounds of the model *)

MaxLog == 2
MaxKnowledge == 2
MaxNotes == 2
MaxClock == 1

-----------------------------------------------------------------------------
(* Characters and strings *)

UpperAlpha ==
    <<"A","B","C","D","E","F","G","H","I","J","K","L","M",
      "N","O","P","Q","R","S","T","U","V","W","X","Y","Z">>

LowerAlpha ==
    <<"a","b","c","d","e","f","g","h","i","j","k","l","m",
      "n","o","p","q","r","s","t","u","v","w","x","y","z">>

Digits == {"0","1","2","3","4","5","6","7","8","9"}

Range(s) == {s[i] : i \in 1..Len(s)}

\* str.lower() on the characters it changes
LowerMap == [c \in Range(UpperAlpha) |->
                LowerAlpha[CHOOSE i \in 1..26 : UpperAlpha[i] = c]]

\* str.lower(), one character
LowerChar(c) == IF c \in DOMAIN LowerMap THEN LowerMap[c] ELSE c

\* str.lower()
Lower(s) == [i \in 1..Len(s) |-> LowerChar(s[i])]

\* \s of the regular expressions, and the whitespace of strip() and split()
IsSpace(c) == c = " "

\* The characters the regular expressions' \w matches
WordChars == Range(LowerAlpha) \cup Range(UpperAlpha) \cup Digits \cup {"_"}

IsWordChar(c) == c \in WordChars

\* str.strip()
Strip(s) ==
    LET keep == {i \in 1..Len(s) : ~IsSpace(s[i])}
    IN IF keep = {} THEN <<>>
       ELSE SubSeq(s, CHOOSE i \in keep : \A j \in keep : i <= j,
                      CHOOSE i \in keep : \A j \in keep : j <= i)

\* re.sub(r'[^\w\s]', ' ', text)
SubPunct(s) ==
    [i \in 1..Len(s) |-> IF IsWordChar(s[i]) \/ IsSpace(s[i]) THEN s[i] ELSE " "]

\* re.sub(r'\s+', ' ', text)
RECURSIVE Collapse(_)
Collapse(s) ==
    IF Len(s) = 0 THEN <<>>
    ELSE IF Len(s) >= 2 /\ IsSpace(s[1]) /\ IsSpace(s[2]) THEN Collapse(Tail(s))
    ELSE <<(IF IsSpace(s[1]) THEN " " ELSE s[1])>> \o Collapse(Tail(s))

\* NLPProcessor.preprocess_text: lower and strip first, then the two re.sub
preprocess_text(text) == Collapse(SubPunct(Strip(Lower(text))))

\* str.split(): the maximal runs of non-whitespace, in order
RECURSIVE SplitFrom(_, _, _)
SplitFrom(s, i, cur) ==
    IF i > Len(s) THEN (IF cur = <<>> THEN <<>> ELSE <<cur>>)
    ELSE IF IsSpace(s[i])
         THEN (IF cur = <<>> THEN <<>> ELSE <<cur>>) \o SplitFrom(s, i + 1, <<>>)
         ELSE SplitFrom(s, i + 1, Append(cur, s[i]))

Split(s) == SplitFrom(s, 1, <<>>)

\* Python's `a in b` on two str
In(a, b) ==
    \E i \in 0..(Len(b) - Len(a)) : SubSeq(b, i + 1, i + Len(a)) = a

\* `x in xs` on a list of str
Member(x, xs) == \E i \in 1..Len(xs) : xs[i] = x

\* str concatenation of a list of str
RECURSIVE Concat(_)
Concat(ss) == IF ss = <<>> THEN <<>> ELSE Head(ss) \o Concat(Tail(ss))

-----------------------------------------------------------------------------
(* difflib.SequenceMatcher(None, a, b).ratio(), as used by fuzzy_match.    *)
(* Both strings are far shorter than 200 characters, so difflib's          *)
(* automatic junk heuristic is off and no character is junk.               *)

RECURSIVE CommonLen(_, _, _, _)
CommonLen(a, b, i, j) ==
    IF i > Len(a) \/ j > Len(b) THEN 0
    ELSE IF a[i] # b[j] THEN 0
    ELSE 1 + CommonLen(a, b, i + 1, j + 1)

\* find_longest_match: the longest common block; of those the one starting
\* earliest in a, and of those the one starting earliest in b
find_longest_match(a, b) ==
    LET pairs == (1..Len(a)) \X (1..Len(b))
        len   == [p \in pairs |-> CommonLen(a, b, p[1], p[2])]
        sizes == {len[p] : p \in pairs}
        k     == CHOOSE x \in sizes : \A y \in sizes : y <= x
        is    == {p[1] : p \in {q \in pairs : len[q] = k}}
        i     == CHOOSE x \in is : \A y \in is : x <= y
        js    == {p[2] : p \in {q \in pairs : len[q] = k /\ q[1] = i}}
        j     == CHOOSE x \in js : \A y \in js : x <= y
    IN [i |-> i, j |-> j, k |-> k]

\* get_matching_blocks: the total size of the matching blocks, found by
\* recursing to the left and to the right of the longest block
RECURSIVE matches(_, _)
matches(a, b) ==
    IF Len(a) = 0 \/ Len(b) = 0 THEN 0
    ELSE LET m == find_longest_match(a, b)
         IN IF m.k = 0 THEN 0
            ELSE m.k
                 + matches(SubSeq(a, 1, m.i - 1), SubSeq(b, 1, m.j - 1))
                 + matches(SubSeq(a, m.i + m.k, Len(a)), SubSeq(b, m.j + m.k, Len(b)))

\* A ratio in 0..100 is kept exact as the fraction 200 * m / t, t > 0.
\* difflib's _calculate_ratio returns 1.0 when both strings are empty.
calculate_ratio(m, length) ==
    IF length > 0 THEN [m |-> m, t |-> length] ELSE [m |-> 1, t |-> 2]

\* NLPProcessor.fuzzy_match: ratio() * 100 of the two preprocessed strings
fuzzy_match(query, target) ==
    LET query_clean  == preprocess_text(query)
        target_clean == preprocess_text(target)
    IN calculate_ratio(matches(query_clean, target_clean),
                       Len(query_clean) + Len(target_clean))

\* fuzzy_match(...) > threshold
RatioGt(r, threshold) == 200 * r.m > threshold * r.t

-----------------------------------------------------------------------------
(* NLPProcessor *)

\* DataManager.ensure_files: the default synonyms.json
DefaultSynonyms == <<
    [key |-> <<"d","b","m","s">>,
     syns |-> <<<<"d","a","t","a","b","a","s","e"," ","m","a","n","a","g","e","m","e","n","t"," ","s","y","s","t","e","m">>, <<"d","a","t","a","b","a","s","e">>, <<"d","b">>>>],
    [key |-> <<"c","s">>,
     syns |-> <<<<"c","o","m","p","u","t","e","r"," ","s","c","i","e","n","c","e">>, <<"c","o","m","p"," ","s","c","i">>>>],
    [key |-> <<"j","a","v","a">>,
     syns |-> <<<<"p","r","o","g","r","a","m","m","i","n","g">>, <<"c","o","d","i","n","g">>>>],
    [key |-> <<"n","o","t","e","s">>,
     syns |-> <<<<"n","o","t","e">>, <<"m","a","t","e","r","i","a","l">>, <<"s","t","u","d","y"," ","m","a","t","e","r","i","a","l">>>>],
    [key |-> <<"e","x","a","m">>,
     syns |-> <<<<"t","e","s","t">>, <<"e","x","a","m","i","n","a","t","i","o","n">>, <<"q","u","i","z">>, <<"e","x","m">>, <<"e","x","a","m","s">>, <<"t","e","s","t","s">>>>],
    [key |-> <<"e","x","m">>,
     syns |-> <<<<"e","x","a","m">>, <<"t","e","s","t">>, <<"e","x","a","m","i","n","a","t","i","o","n">>, <<"q","u","i","z">>>>],
    [key |-> <<"f","a","c","u","l","t","y">>,
     syns |-> <<<<"t","e","a","c","h","e","r">>, <<"p","r","o","f","e","s","s","o","r">>, <<"s","t","a","f","f">>, <<"i","n","s","t","r","u","c","t","o","r">>>>],
    [key |-> <<"s","c","h","e","d","u","l","e">>,
     syns |-> <<<<"t","i","m","e","t","a","b","l","e">>, <<"t","i","m","e">>, <<"t","i","m","i","n","g">>, <<"c","l","a","s","s">>>>] >>

\* The terms reachable from a set of terms through any chain of groups
RECURSIVE Closure(_, _)
Closure(table, terms) ==
    LET pulled == UNION {{table[g].key} \cup Range(table[g].syns) :
                           g \in {h \in 1..Len(table) :
                                    \E w \in terms : Member(w, table[h].syns) \/ w = table[h].key}}
    IN IF pulled \subseteq terms THEN terms ELSE Closure(table, terms \cup pulled)

\* Expansion closed transitively over the groups
ExpandTransitive(table, text) == Closure(table, Range(Split(text)))

\* NLPProcessor.expand_synonyms: the words of the text and, for each word,
\* every group whose key it is or whose list holds it. The result is built
\* as a Python set; no caller depends on the order of list(set).
expand_synonyms(table, text) ==
    LET words == Split(text)
        hit(g) == \E w \in Range(words) : Member(w, g.syns) \/ w = g.key
    IN Range(words)
       \cup UNION {{table[g].key} \cup Range(table[g].syns) :
                     g \in {h \in 1..Len(table) : hit(table[h])}}

\* The keyword lists of detect_intent's if/elif chain, in its order
IntentKeywords == <<
    [intent |-> "notes_request",
     words  |-> <<<<"n","o","t","e">>, <<"n","o","t","e","s">>, <<"m","a","t","e","r","i","a","l">>, <<"p","d","f">>>>],
    [intent |-> "exam_info",
     words  |-> <<<<"e","x","a","m">>, <<"t","e","s","t">>, <<"e","x","a","m","i","n","a","t","i","o","n">>, <<"e","x","m">>, <<"q","u","i","z">>>>],
    [intent |-> "faculty_info",
     words  |-> <<<<"f","a","c","u","l","t","y">>, <<"t","e","a","c","h","e","r">>, <<"p","r","o","f","e","s","s","o","r">>, <<"s","t","a","f","f">>>>],
    [intent |-> "schedule_info",
     words  |-> <<<<"s","c","h","e","d","u","l","e">>, <<"t","i","m","e","t","a","b","l","e">>, <<"c","l","a","s","s">>, <<"t","i","m","e">>>>],
    [intent |-> "events_info",
     words  |-> <<<<"e","v","e","n","t">>, <<"e","v","e","n","t","s">>, <<"a","c","t","i","v","i","t","y">>, <<"a","c","t","i","v","i","t","i","e","s">>>>],
    [intent |-> "mental_health",
     words  |-> <<<<"m","e","n","t","a","l">>, <<"h","e","a","l","t","h">>, <<"s","t","r","e","s","s">>, <<"a","n","x","i","e","t","y">>>>],
    [intent |-> "help_greeting",
     words  |-> <<<<"h","e","l","p">>, <<"h","i">>, <<"h","e","l","l","o">>, <<"h","e","y">>>>] >>

\* any(word in term for term in all_terms for word in [...])
AnyWordInTerm(words, all_terms) ==
    \E term \in all_terms : \E w \in Range(words) : In(w, term)

\* The categories detect_intent and _try_direct_keyword_match walk, in order
StdCategories == <<"exam_dates", "faculty", "schedule", "events">>

AllCategories == StdCategories \o <<"custom_categories">>

\* f"{category.split('_')[0]}_info"
CategoryIntent(category) ==
    CASE category = "exam_dates" -> "exam_info"
      [] category = "faculty"    -> "faculty_info"
      [] category = "schedule"   -> "schedule_info"
      [] category = "events"     -> "events_info"

\* _check_category_keywords with the first test only: a keyword that
\* contains the query
CheckQueryInKeyword(query, category, info_data) ==
    /\ category \in DOMAIN info_data
    /\ \E n \in 1..Len(info_data[category]) :
          /\ info_data[category][n].dict
          /\ \E k \in 1..Len(info_data[category][n].keywords) :
                In(query, info_data[category][n].keywords[k])

\* NLPProcessor._check_category_keywords
check_category_keywords(query, category, info_data) ==
    /\ category \in DOMAIN info_data
    /\ \E n \in 1..Len(info_data[category]) :
          LET value == info_data[category][n]
          IN /\ value.dict
             /\ \E k \in 1..Len(value.keywords) :
                   LET keyword == value.keywords[k]
                   IN \/ In(query, keyword)
                      \/ In(keyword, query)
                      \/ RatioGt(fuzzy_match(query, keyword), 80)

\* detect_intent with the chain read from its end: the last keyword list
\* with a word inside some term decides
RECURSIVE LastIntent(_, _)
LastIntent(all_terms, n) ==
    IF n > Len(IntentKeywords) THEN "none"
    ELSE IF LastIntent(all_terms, n + 1) # "none" THEN LastIntent(all_terms, n + 1)
    ELSE IF AnyWordInTerm(IntentKeywords[n].words, all_terms)
         THEN IntentKeywords[n].intent
         ELSE "none"

\* The if/elif chain of detect_intent from position n on: the first keyword
\* list with a word inside some term decides
RECURSIVE FirstIntent(_, _)
FirstIntent(all_terms, n) ==
    IF n > Len(IntentKeywords) THEN "none"
    ELSE IF AnyWordInTerm(IntentKeywords[n].words, all_terms)
         THEN IntentKeywords[n].intent
         ELSE FirstIntent(all_terms, n + 1)

\* The else branch of detect_intent: the first standard category one of
\* whose keywords matches the lowercased text
RECURSIVE FirstCategory(_, _, _)
FirstCategory(text_lower, info_data, n) ==
    IF n > Len(StdCategories) THEN "unknown"
    ELSE IF check_category_keywords(text_lower, StdCategories[n], info_data)
         THEN CategoryIntent(StdCategories[n])
         ELSE FirstCategory(text_lower, info_data, n + 1)

\* detect_intent once the terms are known
IntentOf(text_lower, info_data, fixed) ==
    IF fixed # "none" THEN fixed ELSE FirstCategory(text_lower, info_data, 1)

\* all_terms = set([text_lower] + expanded_terms)
AllTerms(table, text_lower) == {text_lower} \cup expand_synonyms(table, text_lower)

\* NLPProcessor.detect_intent
detect_intent(table, info_data, text) ==
    IntentOf(Lower(text), info_data, FirstIntent(AllTerms(table, Lower(text)), 1))

-----------------------------------------------------------------------------
(* Responses *)

NoNote == <<>>

\* {'type': 'text', 'message': message}
Text(message) ==
    [type |-> "text", message |-> message, note |-> NoNote, notes |-> <<>>]

\* {'type': 'note_download', 'message': ..., 'note': best_match}
NoteDownload(message, note) ==
    [type |-> "note_download", message |-> message, note |-> <<note>>, notes |-> <<>>]

\* {'type': 'notes_list', 'message': ..., 'notes': all_notes}
NotesList(message, all_notes) ==
    [type |-> "notes_list", message |-> message, note |-> NoNote, notes |-> all_notes]

\* f"**{key}**: {display_value}"
KeyValue(key, display_value) ==
    <<"*","*">> \o key \o <<"*","*",":"," ">> \o display_value

\* The fixed texts, each kept as one unit
FallbackMessage == <<"I'm sorry, I don't have information about that yet. I've noted your question and admin can help provide an answer for future queries. Is there anything else I can help you with?">>

GreetingMessage == <<"Hello! I'm SmartBuddy, your AI-powered college assistant with offline Natural Language Processing. ... Just ask naturally">>

MentalHealthMessage == <<"Here are some mental health tips for students: ... Remember: It's okay to ask for help when you need it!">>

NoNotesMessage == <<"No notes are currently available. Please contact admin to add study materials.">>

NoNotesFoundMessage == <<"No notes found for that topic, and no other notes are available yet.">>

AllNotesMessage == <<"Here are all available notes:">>

AvailableNotesMessage == <<"Available notes:">>

\* category.replace('_', ' ')
CategoryLabel(category) ==
    CASE category = "exam_dates"        -> "exam dates"
      [] category = "faculty"           -> "faculty"
      [] category = "schedule"          -> "schedule"
      [] category = "events"            -> "events"
      [] category = "custom_categories" -> "custom categories"

\* f"No {category.replace('_', ' ')} information is available yet."
NoInfoMessage(category) ==
    <<"No ", CategoryLabel(category), " information is available yet.">>

-----------------------------------------------------------------------------
(* ChatBot._try_direct_keyword_match *)

\* The words of the preprocessed query with their synonym groups
ExpandedWords(table, query_clean) ==
    LET query_words == Split(query_clean)
    IN Range(query_words)
       \cup UNION {expand_synonyms(table, query_words[i]) : i \in 1..Len(query_words)}

\* Sum of the function f over the finite set S
RECURSIVE SumOver(_, _)
SumOver(S, f) ==
    IF S = {} THEN 0
    ELSE LET x == CHOOSE y \in S : TRUE
         IN f[x] + SumOver(S \ {x}, f)

\* Sum of the function f over its domain
Sum(f) == SumOver(DOMAIN f, f)

QuestionPatterns == <<<<"w","h","e","n">>, <<"w","h","a","t">>, <<"w","h","e","r","e">>, <<"h","o","w">>, <<"s","t","a","r","t">>, <<"b","e","g","i","n">>>>

\* What one word adds for one keyword
KeywordPoints(word, keyword) ==
    IF In(word, keyword) \/ In(keyword, word) THEN 40
    ELSE IF RatioGt(fuzzy_match(word, keyword), 70) THEN 25
    ELSE 0

\* What one word adds for the item's key
KeyPoints(word, key_lower) ==
    IF In(word, key_lower) \/ In(key_lower, word) THEN 35
    ELSE IF RatioGt(fuzzy_match(word, key_lower), 70) THEN 20
    ELSE 0

\* The boost added inside the loop over the words: 5 for each word of the
\* query when a question pattern is in it
PatternBoostPerWord(query_clean) ==
    IF \E p \in Range(QuestionPatterns) : In(p, query_clean)
    THEN 5 * Len(Split(query_clean)) ELSE 0

\* The boost for common question patterns, added once per item
PatternBoost(query_clean) ==
    IF \E p \in Range(QuestionPatterns) : In(p, query_clean) THEN 5 ELSE 0

\* The score of one dict item in the global pass
DirectScore(expanded_words, query_clean, key, value) ==
    Sum([k \in 1..Len(value.keywords) |->
            Sum([word \in expanded_words |-> KeywordPoints(word, value.keywords[k])])])
    + Sum([word \in expanded_words |-> KeyPoints(word, Lower(key))])
    + PatternBoost(query_clean)

\* The (category, key, value) entries of info.json in the order the two
\* nested loops visit them; a category missing from the file is skipped
RECURSIVE ItemsInOrder(_, _)
ItemsInOrder(info_data, n) ==
    IF n > Len(AllCategories) THEN <<>>
    ELSE LET category == AllCategories[n]
             content  == IF category \in DOMAIN info_data
                         THEN info_data[category] ELSE <<>>
         IN [i \in 1..Len(content) |-> [category |-> category, item |-> content[i]]]
            \o ItemsInOrder(info_data, n + 1)

\* if score >= best_score: a record that ties with the best replaces it
BetterMatchOrEqual(best, value, score) ==
    IF score >= best.score THEN [match |-> <<value>>, score |-> score] ELSE best

\* if score > best_score: the best match (a one-element sequence, empty
\* for None) and its score after a dict item with this score
BetterMatch(best, value, score) ==
    IF score > best.score THEN [match |-> <<value>>, score |-> score] ELSE best

\* The test of the custom-category branch on one non-dict item
CustomHit(category, key, expanded_words) ==
    /\ category = "custom_categories"
    /\ \E word \in expanded_words : In(word, Lower(key)) \/ In(Lower(key), word)

\* The end of the global pass without the threshold: whichever item scored
\* best is returned
DirectResultAny(best) ==
    IF best.match # <<>>
    THEN [hit |-> TRUE,
          ret |-> Text(KeyValue(best.match[1].key, best.match[1].value)),
          score |-> best.score]
    ELSE [hit |-> FALSE, ret |-> Text(<<>>), score |-> best.score]

\* The end of _try_direct_keyword_match: the best match if its score is
\* over 15, else None (hit = FALSE)
DirectResult(best) ==
    IF best.match # <<>> /\ best.score > 15
    THEN [hit |-> TRUE,
          ret |-> Text(KeyValue(best.match[1].key, best.match[1].value)),
          score |-> best.score]
    ELSE [hit |-> FALSE, ret |-> Text(<<>>), score |-> best.score]

\* The loop with the custom branch put after the scoring: a record that
\* scored over 15 is returned before a matching custom category
RECURSIVE DirectLoopScoreFirst(_, _, _, _, _)
DirectLoopScoreFirst(items, n, expanded_words, query_clean, best) ==
    IF n > Len(items) THEN DirectResult(best)
    ELSE IF items[n].item.dict
    THEN DirectLoopScoreFirst(items, n + 1, expanded_words, query_clean,
                              BetterMatch(best, items[n].item,
                                          DirectScore(expanded_words, query_clean,
                                                      items[n].item.key, items[n].item)))
    ELSE IF CustomHit(items[n].category, items[n].item.key, expanded_words)
    THEN IF best.score > 15 THEN DirectResult(best)
         ELSE [hit |-> TRUE,
               ret |-> Text(KeyValue(items[n].item.key, items[n].item.value)),
               score |-> best.score]
    ELSE DirectLoopScoreFirst(items, n + 1, expanded_words, query_clean, best)

\* The loop body over the entries from position n on, with the best match so
\* far. A non-dict item of custom_categories whose name matches a word
\* returns at once; a dict item replaces the best only with a greater score.
RECURSIVE DirectLoop(_, _, _, _, _)
DirectLoop(items, n, expanded_words, query_clean, best) ==
    IF n > Len(items) THEN DirectResult(best)
    ELSE IF items[n].item.dict
    THEN DirectLoop(items, n + 1, expanded_words, query_clean,
                    BetterMatch(best, items[n].item,
                                DirectScore(expanded_words, query_clean,
                                            items[n].item.key, items[n].item)))
    ELSE IF CustomHit(items[n].category, items[n].item.key, expanded_words)
    THEN [hit |-> TRUE,
          ret |-> Text(KeyValue(items[n].item.key, items[n].item.value)),
          score |-> best.score]
    ELSE DirectLoop(items, n + 1, expanded_words, query_clean, best)

\* ChatBot._try_direct_keyword_match on the preprocessed query
DirectMatch(table, info_data, query_clean) ==
    DirectLoop(ItemsInOrder(info_data, 1), 1, ExpandedWords(table, query_clean),
               query_clean, [match |-> <<>>, score |-> 0])

\* ChatBot._try_direct_keyword_match: hit = FALSE stands for None
try_direct_keyword_match(table, info_data, query) ==
    DirectMatch(table, info_data, preprocess_text(query))

-----------------------------------------------------------------------------
(* ChatBot._handle_info_request *)

\* A category score is an integer plus two ratios times 0.1; it is kept
\* exact as the fraction n / d, d > 0
Score(points, r1, r2) ==
    [n |-> points * r1.t * r2.t + 20 * r1.m * r2.t + 20 * r2.m * r1.t,
     d |-> r1.t * r2.t]

ZeroScore == [n |-> 0, d |-> 1]

\* score > other
ScoreGt(score, other) == score.n * other.d > other.n * score.d

\* score > c, for an integer c
ScoreGtInt(score, c) == score.n > c * score.d

\* value.get('value', '') of a dict item, the string itself of a legacy one
DisplayValue(value) == value.value

\* value.get('keywords', []) of a dict item, [] for a legacy one
Keywords(value) == IF value.dict THEN value.keywords ELSE <<>>

\* What one keyword adds in the category-scoped pass
InfoKeywordPoints(query_clean, keyword) ==
    IF query_clean = keyword THEN 50
    ELSE IF In(query_clean, keyword) \/ In(keyword, query_clean) THEN 30
    ELSE IF RatioGt(fuzzy_match(query_clean, keyword), 60) THEN 20
    ELSE 0

\* The score of one item in the category-scoped pass
InfoScore(query_clean, value) ==
    Score(Sum([k \in 1..Len(Keywords(value)) |->
                  InfoKeywordPoints(query_clean, Keywords(value)[k])])
          + (IF In(query_clean, Lower(value.key)) THEN 15 ELSE 0)
          + (IF In(query_clean, Lower(DisplayValue(value))) THEN 10 ELSE 0),
          fuzzy_match(query_clean, value.key),
          fuzzy_match(query_clean, DisplayValue(value)))

\* if score > best_score: the position of the best item (0 for None) and
\* its score after the item at position n with this score
BetterItem(best, n, score) ==
    IF ScoreGt(score, best.score) THEN [match |-> n, score |-> score] ELSE best

\* The scoring loop from position n on
RECURSIVE InfoLoop(_, _, _, _)
InfoLoop(content, n, query_clean, best) ==
    IF n > Len(content) THEN best
    ELSE InfoLoop(content, n + 1, query_clean,
                  BetterItem(best, n, InfoScore(query_clean, content[n])))

\* message += f"**{key}**: {display_value}\n\n" for every item, in order
RECURSIVE DumpAll(_)
DumpAll(content) ==
    IF content = <<>> THEN <<>>
    ELSE KeyValue(Head(content).key, DisplayValue(Head(content))) \o <<"\n","\n">>
         \o DumpAll(Tail(content))

\* The message without the threshold: the best item alone whenever the loop
\* found one
InfoMessageAnyBest(content, best) ==
    IF best.match # 0
    THEN KeyValue(content[best.match].key, DisplayValue(content[best.match]))
    ELSE DumpAll(content)

\* The message for the outcome of the scoring loop: the best item alone if
\* its score is over 5, else every item of the category
InfoMessage(content, best) ==
    IF best.match # 0 /\ ScoreGtInt(best.score, 5)
    THEN KeyValue(content[best.match].key, DisplayValue(content[best.match]))
    ELSE DumpAll(content)

\* The outcome of the scoring loop over a category
BestItem(content, query_clean) ==
    InfoLoop(content, 1, query_clean, [match |-> 0, score |-> ZeroScore])

\* _handle_info_request with `if category in info_data:` only, so that an
\* empty category is scored and dumped
InfoRequestOfEmpty(info_data, query, category) ==
    IF category \in DOMAIN info_data
    THEN [ret |-> Text(InfoMessage(info_data[category],
                                   BestItem(info_data[category],
                                            preprocess_text(query)))),
          trace |-> <<"info_request", "score_records">>]
    ELSE [ret |-> Text(NoInfoMessage(category)),
          trace |-> <<"info_request">>]

\* ChatBot._handle_info_request
handle_info_request(info_data, query, category) ==
    IF category \in DOMAIN info_data /\ info_data[category] # <<>>
    THEN [ret |-> Text(InfoMessage(info_data[category],
                                   BestItem(info_data[category],
                                            preprocess_text(query)))),
          trace |-> <<"info_request", "score_records">>]
    ELSE [ret |-> Text(NoInfoMessage(category)),
          trace |-> <<"info_request">>]

-----------------------------------------------------------------------------
(* NotesManager.search_notes and ChatBot._handle_notes_request *)

\* filename.split('.')[0]
RECURSIVE BeforeDot(_)
BeforeDot(s) ==
    IF s = <<>> \/ Head(s) = "." THEN <<>> ELSE <<Head(s)>> \o BeforeDot(Tail(s))

NotePatterns == <<<<"n","o","t","e","s">>, <<"m","a","t","e","r","i","a","l">>, <<"s","t","u","d","y">>, <<"p","d","f">>>>

\* What one word adds for a field of a note: hit if either contains the
\* other, near if they are similar
FieldPoints(word, field, hit, near) ==
    IF In(word, field) \/ In(field, word) THEN hit
    ELSE IF RatioGt(fuzzy_match(word, field), 70) THEN near
    ELSE 0

\* Boost for common note request patterns
NoteBoost(query_clean) ==
    IF \E p \in Range(NotePatterns) : In(p, query_clean) THEN 5 ELSE 0

\* The score search_notes gives one note
NoteScore(expanded_words, query_clean, note) ==
    Sum([word \in expanded_words |->
            FieldPoints(word, preprocess_text(note.display_name), 35, 20)
            + FieldPoints(word, preprocess_text(BeforeDot(note.filename)), 30, 15)
            + Sum([k \in 1..Len(note.keywords) |->
                      FieldPoints(word, preprocess_text(note.keywords[k]), 25, 15)])])
    + NoteBoost(query_clean)

\* The sort key without the upload time: notes of equal score keep the
\* order of the metadata
KeyGtScoreOnly(r, s) == r.score > s.score

\* The key (x['score'], x['note']['uploaded_at']) of r is greater than that of s
KeyGt(r, s) ==
    \/ r.score > s.score
    \/ r.score = s.score /\ r.note.uploaded_at > s.note.uploaded_at

\* r put behind the entries of the sorted list whose key is not smaller
InsertResult(sorted, r) ==
    LET before == {i \in 1..Len(sorted) : ~KeyGt(r, sorted[i])}
        cut    == IF before = {} THEN 0
                  ELSE CHOOSE i \in before : \A j \in before : j <= i
    IN SubSeq(sorted, 1, cut) \o <<r>> \o SubSeq(sorted, cut + 1, Len(sorted))

\* results.sort(key=..., reverse=True): a stable sort, entries of equal key
\* keep their order
RECURSIVE SortResults(_)
SortResults(results) ==
    IF results = <<>> THEN <<>>
    ELSE InsertResult(SortResults(SubSeq(results, 1, Len(results) - 1)),
                      results[Len(results)])

\* return [r['note'] for r in results]
NotesOf(results) == [i \in 1..Len(results) |-> results[i].note]

\* The scored notes over the threshold, in the order of the metadata
ScoredNotes(expanded_words, query_clean, metadata) ==
    SelectSeq([i \in 1..Len(metadata) |->
                  [note |-> metadata[i],
                   score |-> NoteScore(expanded_words, query_clean, metadata[i])]],
              LAMBDA r : r.score > 10)

\* NotesManager.search_notes on the preprocessed query
SearchClean(table, metadata, query_clean) ==
    NotesOf(SortResults(ScoredNotes(ExpandedWords(table, query_clean),
                                    query_clean, metadata)))

\* NotesManager.search_notes
search_notes(table, metadata, query) ==
    IF metadata = <<>> THEN <<>>
    ELSE SearchClean(table, metadata, preprocess_text(query))

\* NotesManager.get_all_notes
get_all_notes(metadata) == metadata

ListRequests == <<<<"n","o","t","e">>, <<"n","o","t","e","s">>, <<"s","h","o","w"," ","n","o","t","e","s">>, <<"l","i","s","t"," ","n","o","t","e","s">>>>

\* f"{best_match['display_name']} notes:"
DownloadMessage(note) == note.display_name \o <<" ","n","o","t","e","s",":">>

\* The branch of _handle_notes_request for "show me everything"
ListAll(all_notes) ==
    IF all_notes # <<>> THEN NotesList(AllNotesMessage, all_notes)
    ELSE Text(NoNotesMessage)

\* The branch after search_notes without its last else: with no note found
\* and none stored the function ends without a return
SearchResponseNoElse(matching_notes, all_notes) ==
    IF matching_notes # <<>>
    THEN NoteDownload(DownloadMessage(matching_notes[1]), matching_notes[1])
    ELSE IF all_notes # <<>> THEN NotesList(AvailableNotesMessage, all_notes)
    ELSE [type |-> "None", message |-> <<>>, note |-> NoNote, notes |-> <<>>]

\* The branch of _handle_notes_request after search_notes
SearchResponse(matching_notes, all_notes) ==
    IF matching_notes # <<>>
    THEN NoteDownload(DownloadMessage(matching_notes[1]), matching_notes[1])
    ELSE IF all_notes # <<>> THEN NotesList(AvailableNotesMessage, all_notes)
    ELSE Text(NoNotesFoundMessage)

\* _handle_notes_request without the branch for "show me everything":
\* search_notes is run on every query
NotesRequestAlwaysSearch(table, metadata, query) ==
    [ret |-> SearchResponse(search_notes(table, metadata, query),
                            get_all_notes(metadata)),
     trace |-> <<"notes_request", "search_notes">>]

\* ChatBot._handle_notes_request
handle_notes_request(table, metadata, query) ==
    IF Member(preprocess_text(query), ListRequests)
    THEN [ret |-> ListAll(get_all_notes(metadata)),
          trace |-> <<"notes_request">>]
    ELSE [ret |-> SearchResponse(search_notes(table, metadata, query),
                                 get_all_notes(metadata)),
          trace |-> <<"notes_request", "search_notes">>]

-----------------------------------------------------------------------------
(* ChatBot._handle_unknown_query and the static handlers *)

\* The position of the knowledge entry of the highest ratio over 75, the
\* first of them on a tie; 0 for none
BestAnswer(knowledge_base, query, n) ==
    IF \A i \in n..Len(knowledge_base) :
          ~RatioGt(fuzzy_match(query, knowledge_base[i].question), 75)
    THEN 0
    ELSE CHOOSE i \in n..Len(knowledge_base) :
            /\ \A j \in n..Len(knowledge_base) :
                  fuzzy_match(query, knowledge_base[j].question).m
                     * fuzzy_match(query, knowledge_base[i].question).t
                  <= fuzzy_match(query, knowledge_base[i].question).m
                     * fuzzy_match(query, knowledge_base[j].question).t
            /\ \A j \in n..(i - 1) :
                  fuzzy_match(query, knowledge_base[j].question).m
                     * fuzzy_match(query, knowledge_base[i].question).t
                  < fuzzy_match(query, knowledge_base[i].question).m
                     * fuzzy_match(query, knowledge_base[j].question).t

\* The position of the first knowledge entry with
\* fuzzy_match(query, qa['question']) > 75, from position n on; 0 for none
RECURSIVE FirstAnswer(_, _, _)
FirstAnswer(knowledge_base, query, n) ==
    IF n > Len(knowledge_base) THEN 0
    ELSE IF RatioGt(fuzzy_match(query, knowledge_base[n].question), 75) THEN n
    ELSE FirstAnswer(knowledge_base, query, n + 1)

\* {'query': query, 'asked_at': ...}; asked_at is only ever displayed
Unanswered(query) == [query |-> query]

\* _handle_unknown_query with unanswered.insert(0, ...) for the append
UnknownResultInsertFirst(knowledge_base, log, query, n) ==
    IF n # 0
    THEN [ret |-> Text(knowledge_base[n].answer),
          log |-> log,
          trace |-> <<"unknown_query">>]
    ELSE [ret |-> Text(FallbackMessage),
          log |-> <<Unanswered(query)>> \o log,
          trace |-> <<"unknown_query", "log_unanswered">>]

\* _handle_unknown_query with the query logged before the knowledge base is
\* looked at
UnknownResultLogFirst(knowledge_base, log, query, n) ==
    IF n # 0
    THEN [ret |-> Text(knowledge_base[n].answer),
          log |-> Append(log, Unanswered(query)),
          trace |-> <<"unknown_query", "log_unanswered">>]
    ELSE [ret |-> Text(FallbackMessage),
          log |-> Append(log, Unanswered(query)),
          trace |-> <<"unknown_query", "log_unanswered">>]

\* _handle_unknown_query that remembers: a query already in the log is
\* answered with an empty text and not logged again
UnknownResultRemembers(knowledge_base, log, query, n) ==
    IF n # 0
    THEN [ret |-> Text(knowledge_base[n].answer),
          log |-> log,
          trace |-> <<"unknown_query">>]
    ELSE IF Member(Unanswered(query), log)
    THEN [ret |-> Text(<<>>), log |-> log, trace |-> <<"unknown_query">>]
    ELSE [ret |-> Text(FallbackMessage),
          log |-> Append(log, Unanswered(query)),
          trace |-> <<"unknown_query", "log_unanswered">>]

\* The two ends of _handle_unknown_query: the answer of entry n, or (n = 0)
\* the query logged and the fallback text
UnknownResult(knowledge_base, log, query, n) ==
    IF n # 0
    THEN [ret |-> Text(knowledge_base[n].answer),
          log |-> log,
          trace |-> <<"unknown_query">>]
    ELSE [ret |-> Text(FallbackMessage),
          log |-> Append(log, Unanswered(query)),
          trace |-> <<"unknown_query", "log_unanswered">>]

\* ChatBot._handle_unknown_query: the response and the log it leaves
handle_unknown_query(knowledge_base, log, query) ==
    UnknownResult(knowledge_base, log, query, FirstAnswer(knowledge_base, query, 1))

\* ChatBot._handle_mental_health
handle_mental_health == [ret |-> Text(MentalHealthMessage), trace |-> <<"mental_health">>]

\* ChatBot._handle_greeting
handle_greeting == [ret |-> Text(GreetingMessage), trace |-> <<"greeting">>]

-----------------------------------------------------------------------------
(* ChatBot.process_query *)

\* The handler an intent is dispatched to, with the category it is given
IntentCategory(intent) ==
    CASE intent = "exam_info"     -> "exam_dates"
      [] intent = "faculty_info"  -> "faculty"
      [] intent = "schedule_info" -> "schedule"
      [] intent = "events_info"   -> "events"

InfoIntents == {"exam_info", "faculty_info", "schedule_info", "events_info"}

\* A handler's result as process_query's: the log is left as it is
Handled(h, intent, log) ==
    [ret |-> h.ret, intent |-> intent, log |-> log,
     trace |-> <<"direct_match", "detect_intent">> \o h.trace]

\* _handle_unknown_query's result as process_query's
HandledUnknown(u, intent) ==
    [ret |-> u.ret, intent |-> intent, log |-> u.log,
     trace |-> <<"direct_match", "detect_intent">> \o u.trace]

\* The if/elif chain of process_query on the detected intent
Dispatch(table, info_data, metadata, knowledge_base, log, query, intent) ==
    IF intent = "notes_request"
    THEN Handled(handle_notes_request(table, metadata, query), intent, log)
    ELSE IF intent \in InfoIntents
    THEN Handled(handle_info_request(info_data, query, IntentCategory(intent)),
                 intent, log)
    ELSE IF intent = "mental_health" THEN Handled(handle_mental_health, intent, log)
    ELSE IF intent = "help_greeting" THEN Handled(handle_greeting, intent, log)
    ELSE HandledUnknown(handle_unknown_query(knowledge_base, log, query), intent)

\* process_query without the early return: the global pass is made and its
\* match ignored
DispatchAlways(table, info_data, metadata, knowledge_base, log, query, direct_match) ==
    Dispatch(table, info_data, metadata, knowledge_base, log, query,
             detect_intent(table, info_data, query))

\* process_query after the global pass: its match if there is one, else
\* intent detection and dispatch
AfterDirect(table, info_data, metadata, knowledge_base, log, query, direct_match) ==
    IF direct_match.hit
    THEN [ret |-> direct_match.ret, intent |-> "none", log |-> log,
          trace |-> <<"direct_match">>]
    ELSE Dispatch(table, info_data, metadata, knowledge_base, log, query,
                  detect_intent(table, info_data, query))

\* ChatBot.process_query: the response, the intent detected ("none" when
\* detect_intent is not called), the handlers called in order, and the
\* unanswered-queries log the call leaves
process_query(table, info_data, metadata, knowledge_base, log, query) ==
    AfterDirect(table, info_data, metadata, knowledge_base, log, query,
                try_direct_keyword_match(table, info_data, query))

-----------------------------------------------------------------------------
(* What the users and the admin type *)

\* The prompts typed into st.chat_input
Queries == {
    <<"q","u","i","z">>,                          \* "quiz"
    <<"t","e","s","t">>,                          \* "test"
    <<"e","x","a","m"," ","n","o","t","e","s">>,  \* "exam notes"
    <<"n","o","t","e","s">>,                      \* "notes"
    <<"H","i","!">>,                              \* "Hi!"
    <<"s","t","r","e","s","s">>,                  \* "stress"
    <<"s","t","a","f","f">>,                      \* "staff"
    <<"c","l","a","s","s">>,                      \* "class"
    <<"e","v","e","n","t">>,                      \* "event"
    <<"w","i","f","i">>,                          \* "wifi"
    <<"h","e","y"," ","w","h","a","t">>,          \* "hey what"
    <<"h","i"," ","v","i","v","a">>               \* "hi viva"
}

\* keywords.split(',')
RECURSIVE SplitComma(_, _, _)
SplitComma(s, i, cur) ==
    IF i > Len(s) THEN <<cur>>
    ELSE IF s[i] = "," THEN <<cur>> \o SplitComma(s, i + 1, <<>>)
    ELSE SplitComma(s, i + 1, Append(cur, s[i]))

\* [k.strip().lower() for k in keywords.split(',') if k.strip()] if keywords else []
ItemKeywords(keywords) ==
    IF keywords = <<>> THEN <<>>
    ELSE LET parts == SplitComma(keywords, 1, <<>>)
             kept  == SelectSeq(parts, LAMBDA k : Strip(k) # <<>>)
         IN [i \in 1..Len(kept) |-> Lower(Strip(kept[i]))]

\* What the admin submits in the "Add New Item" form of a category
ItemInputs == {
    [category |-> "faculty", key |-> <<"D","e","a","n">>,
     value |-> <<"r","o","o","m"," ","2">>,
     keywords |-> <<"S","t","a","f","f",","," ","w","i","f","i">>],
    [category |-> "exam_dates", key |-> <<"L","a","b">>,
     value |-> <<"t","e","s","t"," ","1">>, keywords |-> <<>>],
    [category |-> "exam_dates", key |-> <<"M","i","d">>,
     value |-> <<"o","c","t"," ","5">>, keywords |-> <<>>]
}

\* What the admin submits in the "Add New Category" form
CustomInputs == {
    [name |-> <<"W","i","f","i">>, content |-> <<"e","d","u","r","o","a","m">>],
    [name |-> <<"S","t","a","f","f"," ","w","i","f","i">>, content |-> <<"a","s","k"," ","i","t">>]
}

\* The prompts typed while the knowledge base is being managed
KnowledgeQueries == {
    <<"w","i","f","i">>,                          \* "wifi"
    <<"v","p","n">>,                               \* "vpn"
    <<"H","i","!">>,                               \* "Hi!"
    <<"t","e","s","t">>                           \* "test"
}

\* What the admin submits in the "Add New Q&A" form
QAInputs == {
    [question |-> <<"w","i","f","i","2">>, answer |-> <<"a","s","k"," ","i","t">>],
    [question |-> <<"w","i","f","i">>, answer |-> <<"e","d","u","r","o","a","m">>]
}

\* What the admin types into "Provide Answer (optional)"
AnswerInputs == {<<>>, <<"e","d","u","r","o","a","m">>}

\* The prompts typed while notes are being managed
NotesQueries == {
    <<"j","a","v","a"," ","p","d","f">>,          \* "java pdf"
    <<"n","o","t","e","s">>                       \* "notes"
}

\* What the admin submits in the "Upload New Note" form: the name of the
\* uploaded file, the display name and the keywords
NoteInputs == {
    [name |-> <<"j",".","p","d","f">>, display_name |-> <<"J","a","v","a">>,
     keywords |-> <<"j","a","v","a",","," ","o","o","p">>],
    [name |-> <<"e",".","p","d","f">>, display_name |-> <<"E","x","a","m"," ","n","o","t","e","s">>,
     keywords |-> <<"e","x","a","m">>]
}

\* The prompts two browser sessions send at the same time
SessionQueries == {
    <<"w","i","f","i">>,                          \* "wifi"
    <<"v","p","n">>                                \* "vpn"
}

\* The browser sessions with a chat in progress
Sessions == {"s1", "s2"}

-----------------------------------------------------------------------------
(* The stores *)

\* DataManager.ensure_files: the default info.json
DefaultInfo ==
    [c \in Range(AllCategories) |-> <<>>]

\* An info.json written by an earlier version: a plain-string value, and
\* not every category present
LegacyInfo ==
    [c \in {"exam_dates", "faculty", "custom_categories"} |->
        IF c = "exam_dates"
        THEN <<[key |-> <<"V","i","v","a">>, dict |-> FALSE,
                value |-> <<"d","e","c"," ","9">>, keywords |-> <<>>]>>
        ELSE <<>>]

\* d[key] = value on a dict kept in insertion order: an existing key keeps
\* its place, a new one goes last
DictSet(d, key, value) ==
    IF \E i \in 1..Len(d) : d[i].key = key
    THEN [i \in 1..Len(d) |-> IF d[i].key = key THEN value ELSE d[i]]
    ELSE Append(d, value)

\* del d[key]
DictDel(d, key) == SelectSeq(d, LAMBDA e : e.key # key)

\* info_data.get(category, {})
InfoGet(info_data, category) ==
    IF category \in DOMAIN info_data THEN info_data[category] ELSE <<>>

\* info_data[category] = current_data
InfoSet(info_data, category, current_data) ==
    [c \in DOMAIN info_data \cup {category} |->
        IF c = category THEN current_data ELSE info_data[c]]

-----------------------------------------------------------------------------
(* ChatManager, auth.json and the session state *)

\* SALT
SALT == <<"s","m","a","r","t","b","u","d","d","y","_","s","a","l","t","_","2","0","2","4">>

\* DataManager.hash_password: the SHA-256 digest of password + SALT, kept as
\* the text it is the digest of
hash_password(password) == <<"sha256", password \o SALT>>

\* The auth.json ensure_files writes: the password is 123
DefaultAuth == [password_hash |-> hash_password(<<"1","2","3">>)]

\* The name a chat is created with
NewChatName == <<"N","e","w"," ","C","h","a","t">>

\* f"chat_{now:%Y%m%d_%H%M%S}": one id for each second of the clock
ChatId(t) == <<"chat", t>>

\* An empty data/chats
NoFiles == [chat_id \in {} |-> <<>>]

\* The chat_data of a chat without messages, made at time t
NewChatData(chat_id, t) ==
    [id |-> chat_id, name |-> NewChatName, created_at |-> t, updated_at |-> t,
     message_count |-> 0, messages |-> <<>>]

\* save_json(chat_file, chat_data): the file is made or replaced
WriteChat(files, chat_id, chat_data) ==
    [i \in DOMAIN files \cup {chat_id} |->
        IF i = chat_id THEN chat_data ELSE files[i]]

\* ChatManager.create_new_chat at time t: data/chats after the call; the id
\* is ChatId(t)
create_new_chat(files, t) == WriteChat(files, ChatId(t), NewChatData(ChatId(t), t))

\* message[:30] + "..." if len(message) > 30 else message
ChatName(message) ==
    IF Len(message) > 30 THEN SubSeq(message, 1, 30) \o <<".", ".", ".">>
    ELSE message

\* ChatManager.save_chat_message at time t: data/chats after the call
save_chat_message(files, chat_id, role, message, t) ==
    LET chat_data == IF chat_id \in DOMAIN files THEN files[chat_id]
                     ELSE NewChatData(chat_id, t)
        messages  == Append(chat_data.messages,
                            [role |-> role, text |-> message, timestamp |-> t])
    IN WriteChat(files, chat_id,
                 [id |-> chat_data.id,
                  name |-> IF chat_data.name = NewChatName /\ role = "user"
                           THEN ChatName(message) ELSE chat_data.name,
                  created_at |-> chat_data.created_at,
                  updated_at |-> t,
                  message_count |-> Len(messages),
                  messages |-> messages])

\* for msg in st.session_state.chat_messages: save_chat_message(
\* current_chat_id, msg['role'], msg['content'])
RECURSIVE SaveMessages(_, _, _, _)
SaveMessages(files, chat_id, chat_messages, t) ==
    IF chat_messages = <<>> THEN files
    ELSE SaveMessages(save_chat_message(files, chat_id, Head(chat_messages).role,
                                        Head(chat_messages).content, t),
                      chat_id, Tail(chat_messages), t)

\* [{'role': msg['role'], 'content': msg['text']} for msg in
\* loaded_chat['messages']]
LoadedMessages(chat_data) ==
    [i \in 1..Len(chat_data.messages) |->
        [role |-> chat_data.messages[i].role,
         content |-> chat_data.messages[i].text]]

\* The session state the script sets on the first run of a session
InitialSession ==
    [page |-> "chat", authenticated |-> FALSE, current_chat_id |-> ChatId(0),
     chat_messages |-> <<>>]

\* No save_json call is in progress
NoSave == [pc |-> "idle"]

\* No process_query call was made by the step
Idle ==
    [called |-> FALSE, query |-> <<>>, ret |-> Text(<<>>), intent |-> "none",
     trace |-> <<>>]

\* A script run that holds no copy of a file
Ready == [pc |-> "ready", query |-> <<>>, data |-> <<>>]

\* The script runs in progress: one per browser session, and the admin's
Runs == Sessions \cup {"admin"}

Init ==
    /\ synonyms = DefaultSynonyms
    /\ info \in {DefaultInfo, LegacyInfo}
    /\ notes = <<>>
    /\ knowledge = <<>>
    /\ unanswered = <<>>
    /\ now = 0
    /\ last = Idle
    /\ sess = [s \in Runs |-> Ready]
    /\ chats = create_new_chat(NoFiles, 0)
    /\ auth = DefaultAuth
    /\ session = InitialSession
    /\ save = NoSave

-----------------------------------------------------------------------------
(* The chat: render_chat_interface calls process_query on the prompt *)

ProcessQuery(query) ==
    \E r \in {process_query(synonyms, info, notes, knowledge, unanswered, query)} :
       /\ Len(r.log) <= MaxLog
       /\ unanswered' = r.log
       /\ last' = [called |-> TRUE, query |-> query, ret |-> r.ret,
                   intent |-> r.intent, trace |-> r.trace]
       /\ UNCHANGED <<synonyms, info, notes, knowledge, now, sess,
                 chats, auth, session, save>>

-----------------------------------------------------------------------------
(* The admin panel: information management *)

\* render_info_editor, "Add": key and value are required
AddItem(in) ==
    /\ in.key # <<>> /\ in.value # <<>>
    /\ LET item_data    == [key |-> in.key, dict |-> TRUE, value |-> in.value,
                            keywords |-> ItemKeywords(in.keywords)]
           current_data == DictSet(InfoGet(info, in.category), in.key, item_data)
       IN info' = InfoSet(info, in.category, current_data)
    /\ last' = Idle
    /\ UNCHANGED <<synonyms, notes, knowledge, unanswered, now, sess,
                 chats, auth, session, save>>

\* render_info_editor, "Delete" on the form of an existing item
DeleteItem(category, key) ==
    /\ category \in DOMAIN info
    /\ \E i \in 1..Len(info[category]) : info[category][i].key = key
    /\ info' = InfoSet(info, category, DictDel(info[category], key))
    /\ last' = Idle
    /\ UNCHANGED <<synonyms, notes, knowledge, unanswered, now, sess,
                 chats, auth, session, save>>

\* render_custom_categories, "Add Category": the content is stored as a
\* plain string
AddCustom(in) ==
    /\ in.name # <<>> /\ in.content # <<>>
    /\ LET entry == [key |-> in.name, dict |-> FALSE, value |-> in.content,
                     keywords |-> <<>>]
           custom_data == DictSet(InfoGet(info, "custom_categories"), in.name, entry)
       IN info' = InfoSet(info, "custom_categories", custom_data)
    /\ last' = Idle
    /\ UNCHANGED <<synonyms, notes, knowledge, unanswered, now, sess,
                 chats, auth, session, save>>

\* render_custom_categories, "Delete"
DeleteCustom(name) ==
    /\ \E i \in 1..Len(InfoGet(info, "custom_categories")) :
          info["custom_categories"][i].key = name
    /\ info' = InfoSet(info, "custom_categories",
                       DictDel(info["custom_categories"], name))
    /\ last' = Idle
    /\ UNCHANGED <<synonyms, notes, knowledge, unanswered, now, sess,
                 chats, auth, session, save>>

\* The "Save" of an item's or a category's edit form deletes the old key and
\* sets the new one: with these inputs it leads where a Delete and an Add do
InfoAdmin ==
    \/ \E in \in ItemInputs : AddItem(in)
    \/ \E in \in ItemInputs : DeleteItem(in.category, in.key)
    \/ \E in \in CustomInputs : AddCustom(in)
    \/ \E in \in CustomInputs : DeleteCustom(in.name)

-----------------------------------------------------------------------------
(* The admin panel: knowledge base and unanswered queries *)

\* {'question': ..., 'answer': ...}; created_at and updated_at are only
\* ever displayed
QA(question, answer) == [question |-> question, answer |-> answer]

\* list.pop(idx), with positions counted from 1
Pop(list, idx) == SubSeq(list, 1, idx - 1) \o SubSeq(list, idx + 1, Len(list))

\* render_knowledge_base, "Add Q&A": both fields are required
AddQA(in) ==
    /\ in.question # <<>> /\ in.answer # <<>>
    /\ Len(knowledge) < MaxKnowledge
    /\ knowledge' = Append(knowledge, QA(in.question, in.answer))
    /\ last' = Idle
    /\ UNCHANGED <<synonyms, info, notes, unanswered, now, sess,
                 chats, auth, session, save>>

\* render_knowledge_base, "Save" on the form of entry idx
SaveQA(idx, in) ==
    /\ idx \in 1..Len(knowledge)
    /\ in.question # <<>> /\ in.answer # <<>>
    /\ knowledge' = [knowledge EXCEPT ![idx] = QA(in.question, in.answer)]
    /\ last' = Idle
    /\ UNCHANGED <<synonyms, info, notes, unanswered, now, sess,
                 chats, auth, session, save>>

\* render_knowledge_base, "Delete" on the form of entry idx
DeleteQA(idx) ==
    /\ idx \in 1..Len(knowledge)
    /\ knowledge' = Pop(knowledge, idx)
    /\ last' = Idle
    /\ UNCHANGED <<synonyms, info, notes, unanswered, now, sess,
                 chats, auth, session, save>>

\* "Convert to Q&A" without the pop: the query stays in the log
ConvertQueryKeepsLog(idx, answer) ==
    /\ idx \in 1..Len(unanswered)
    /\ Len(knowledge) < MaxKnowledge
    /\ IF answer # <<>>
       THEN /\ knowledge' = Append(knowledge, QA(unanswered[idx].query, answer))
            /\ unanswered' = unanswered
       ELSE UNCHANGED <<knowledge, unanswered>>
    /\ last' = Idle
    /\ UNCHANGED <<synonyms, info, notes, now, sess,
                 chats, auth, session, save>>

\* render_unanswered_queries, "Convert to Q&A" on the form of query idx:
\* without an answer nothing is written
ConvertQuery(idx, answer) ==
    /\ idx \in 1..Len(unanswered)
    /\ Len(knowledge) < MaxKnowledge
    /\ IF answer # <<>>
       THEN /\ knowledge' = Append(knowledge, QA(unanswered[idx].query, answer))
            /\ unanswered' = Pop(unanswered, idx)
       ELSE UNCHANGED <<knowledge, unanswered>>
    /\ last' = Idle
    /\ UNCHANGED <<synonyms, info, notes, now, sess,
                 chats, auth, session, save>>

\* render_unanswered_queries, "Delete Query" on the form of query idx
DeleteQuery(idx) ==
    /\ idx \in 1..Len(unanswered)
    /\ unanswered' = Pop(unanswered, idx)
    /\ last' = Idle
    /\ UNCHANGED <<synonyms, info, notes, knowledge, now, sess,
                 chats, auth, session, save>>

KnowledgeAdmin ==
    \/ \E in \in QAInputs : AddQA(in)
    \/ \E idx \in 1..MaxKnowledge, in \in QAInputs : SaveQA(idx, in)
    \/ \E idx \in 1..MaxKnowledge : DeleteQA(idx)
    \/ \E idx \in 1..MaxLog, answer \in AnswerInputs : ConvertQuery(idx, answer)
    \/ \E idx \in 1..MaxLog : DeleteQuery(idx)

-----------------------------------------------------------------------------
(* The admin panel: notes management *)

\* str(n) for one digit
DigitChar(n) == <<"0","1","2","3","4","5","6","7","8","9">>[n + 1]

\* datetime.datetime.now().strftime("%Y%m%d_%H%M%S") at tick t
Stamp(t) == <<"2","0","2","4","0","1","0","1","_","0","0","0","0","0">> \o <<DigitChar(t)>>

\* [k.strip().lower() for k in keywords.split(',')]
NoteKeywords(keywords) ==
    [i \in 1..Len(SplitComma(keywords, 1, <<>>)) |->
        Lower(Strip(SplitComma(keywords, 1, <<>>)[i]))]

\* The record add_note appends to the metadata
NewNote(metadata, name, display_name, keywords, t) ==
    [id |-> Len(metadata) + 1,
     display_name |-> display_name,
     filename |-> Stamp(t) \o <<"_">> \o name,
     keywords |-> NoteKeywords(keywords),
     uploaded_at |-> t]

\* NotesManager.add_note
add_note(metadata, name, display_name, keywords, t) ==
    Append(metadata, NewNote(metadata, name, display_name, keywords, t))

\* The position of the first note with this id; 0 for none
RECURSIVE FirstWithId(_, _, _)
FirstWithId(metadata, note_id, n) ==
    IF n > Len(metadata) THEN 0
    ELSE IF metadata[n].id = note_id THEN n
    ELSE FirstWithId(metadata, note_id, n + 1)

\* NotesManager.delete_note: the first note with the id goes
delete_note(metadata, note_id) ==
    IF FirstWithId(metadata, note_id, 1) = 0 THEN metadata
    ELSE Pop(metadata, FirstWithId(metadata, note_id, 1))

\* NotesManager.update_note: the first note with the id is changed
update_note(metadata, note_id, display_name, keywords) ==
    IF FirstWithId(metadata, note_id, 1) = 0 THEN metadata
    ELSE [metadata EXCEPT ![FirstWithId(metadata, note_id, 1)] =
             [@ EXCEPT !.display_name = display_name,
                       !.keywords = NoteKeywords(keywords)]]

\* render_notes_management, "Upload Note": all fields are required; the
\* clock may have moved on since the last upload
AddNote(in) ==
    /\ in.display_name # <<>> /\ in.keywords # <<>>
    /\ Len(notes) < MaxNotes
    /\ \E t \in {now, now + 1} :
          /\ t <= MaxClock
          /\ now' = t
          /\ notes' = add_note(notes, in.name, in.display_name, in.keywords, t)
    /\ last' = Idle
    /\ UNCHANGED <<synonyms, info, knowledge, unanswered, sess,
                 chats, auth, session, save>>

\* render_notes_management and render_admin_dashboard, the delete button of
\* a listed note
DeleteNote(note_id) ==
    /\ \E i \in 1..Len(notes) : notes[i].id = note_id
    /\ notes' = delete_note(notes, note_id)
    /\ last' = Idle
    /\ UNCHANGED <<synonyms, info, knowledge, unanswered, now, sess,
                 chats, auth, session, save>>

\* render_notes_management, "Save" on the form of a listed note
UpdateNote(note_id, in) ==
    /\ \E i \in 1..Len(notes) : notes[i].id = note_id
    /\ in.display_name # <<>> /\ in.keywords # <<>>
    /\ notes' = update_note(notes, note_id, in.display_name, in.keywords)
    /\ last' = Idle
    /\ UNCHANGED <<synonyms, info, knowledge, unanswered, now, sess,
                 chats, auth, session, save>>

NotesAdmin ==
    \/ \E in \in NoteInputs : AddNote(in)
    \/ \E note_id \in 1..MaxNotes : DeleteNote(note_id)
    \/ \E note_id \in 1..MaxNotes, in \in NoteInputs : UpdateNote(note_id, in)

-----------------------------------------------------------------------------
(* Two browser sessions and the admin at the same time. Streamlit runs the
   script of every session in a thread of its own; the files are shared and
   nothing locks them. *)

\* The query ends in _handle_unknown_query with no knowledge entry for it
ReachesFallback(query) ==
    \E r \in {process_query(synonyms, info, notes, knowledge, unanswered, query)} :
       r.trace[Len(r.trace)] = "log_unanswered"

\* _handle_unknown_query up to the load of unanswered_queries.json
LoadLog(s, query) ==
    /\ sess[s].pc = "ready"
    /\ ReachesFallback(query)
    /\ sess' = [sess EXCEPT ![s] = [pc |-> "loaded", query |-> query,
                                    data |-> unanswered]]
    /\ last' = Idle
    /\ UNCHANGED <<synonyms, info, notes, knowledge, unanswered, now,
                 chats, auth, session, save>>

\* _handle_unknown_query from the append on: the copy loaded earlier, with
\* the query appended, replaces the file
SaveLog(s) ==
    /\ sess[s].pc = "loaded"
    /\ Len(sess[s].data) < MaxLog
    /\ unanswered' = Append(sess[s].data, Unanswered(sess[s].query))
    /\ sess' = [sess EXCEPT ![s] = Ready]
    /\ last' = [called |-> TRUE, query |-> sess[s].query, ret |-> Text(FallbackMessage),
                intent |-> "unknown",
                trace |-> <<"direct_match", "detect_intent", "unknown_query",
                            "log_unanswered">>]
    /\ UNCHANGED <<synonyms, info, notes, knowledge, now,
                 chats, auth, session, save>>

\* render_unanswered_queries up to the load of unanswered_queries.json
LoadQueries ==
    /\ sess["admin"].pc = "ready"
    /\ unanswered # <<>>
    /\ sess' = [sess EXCEPT !["admin"] = [pc |-> "loaded", query |-> <<>>,
                                          data |-> unanswered]]
    /\ last' = Idle
    /\ UNCHANGED <<synonyms, info, notes, knowledge, unanswered, now,
                 chats, auth, session, save>>

\* render_unanswered_queries, "Delete Query" on the form of query idx of
\* the copy loaded earlier
DeleteLoaded(idx) ==
    /\ sess["admin"].pc = "loaded"
    /\ idx \in 1..Len(sess["admin"].data)
    /\ unanswered' = Pop(sess["admin"].data, idx)
    /\ sess' = [sess EXCEPT !["admin"] = Ready]
    /\ last' = Idle
    /\ UNCHANGED <<synonyms, info, notes, knowledge, now,
                 chats, auth, session, save>>

Interleaved ==
    \/ \E s \in Sessions, query \in SessionQueries : LoadLog(s, query)
    \/ \E s \in Sessions : SaveLog(s)
    \/ LoadQueries
    \/ \E idx \in 1..MaxLog : DeleteLoaded(idx)

-----------------------------------------------------------------------------
(* The specifications *)

\* The state after construction on a fresh data directory
InitDefault == Init /\ info = DefaultInfo

Chat == \E query \in Queries : ProcessQuery(query)

\* One user at a time, and the admin managing the information
Next == Chat \/ InfoAdmin

Spec == Init /\ [][Next]_vars

ChatKnowledge == \E query \in KnowledgeQueries : ProcessQuery(query)

\* One user at a time, and the admin managing the knowledge base
NextKnowledge == ChatKnowledge \/ KnowledgeAdmin

SpecKnowledge == InitDefault /\ [][NextKnowledge]_vars

ChatNotes == \E query \in NotesQueries : ProcessQuery(query)

\* One user at a time, and the admin managing the notes
NextNotes == ChatNotes \/ NotesAdmin

SpecNotes == InitDefault /\ [][NextNotes]_vars

\* Two users and the admin at the same time
NextSessions == Interleaved

SpecSessions == InitDefault /\ [][NextSessions]_vars

-----------------------------------------------------------------------------
(* Properties of the response router *)

\* The global pass on the query of the last call, on the stores as they are
DirectOfLast == try_direct_keyword_match(synonyms, info, last.query)

\* C1: process_query runs the global pass first. Whenever the global pass
\* finds a match, the response is that Text and neither detect_intent nor
\* any handler is run; detect_intent runs only when the global pass found
\* no match.
GlobalPassFirst ==
    last.called =>
        /\ last.trace[1] = "direct_match"
        /\ DirectOfLast.hit =>
              /\ last.ret = DirectOfLast.ret
              /\ last.ret.type = "text"
              /\ last.trace = <<"direct_match">>
        /\ Member("detect_intent", last.trace) => ~DirectOfLast.hit

\* A query the fixed keyword sets would classify is answered by the global
\* pass alone
GlobalPassFirstWitness ==
    /\ last.called
    /\ DirectOfLast.hit
    /\ detect_intent(synonyms, info, last.query) \in InfoIntents
    /\ last.trace = <<"direct_match">>
    /\ last.ret = DirectOfLast.ret

\* The priority order of the intents: documents, exam, faculty, schedule,
\* events, mental health, greeting
PriorityOrder ==
    <<"notes_request", "exam_info", "faculty_info", "schedule_info",
      "events_info", "mental_health", "help_greeting">>

\* The keyword set of an intent has a word inside one of the query's terms
CueMatches(intent, query) ==
    \E n \in 1..Len(IntentKeywords) :
       /\ IntentKeywords[n].intent = intent
       /\ AnyWordInTerm(IntentKeywords[n].words, AllTerms(synonyms, Lower(query)))

\* C2: detect_intent returns the first intent, in the fixed priority order,
\* whose keyword set matches: no intent is returned while the keyword set of
\* an intent of higher priority matches, and a query matching both a
\* document cue and an exam cue is a documents request.
IntentPriority ==
    (last.called /\ last.intent # "none") =>
        /\ \A n \in 1..Len(PriorityOrder) :
              (/\ CueMatches(PriorityOrder[n], last.query)
               /\ \A m \in 1..(n - 1) : ~CueMatches(PriorityOrder[m], last.query))
              => last.intent = PriorityOrder[n]
        /\ (CueMatches("notes_request", last.query) /\ CueMatches("exam_info", last.query))
              => last.intent = "notes_request"

\* "exam notes" matches a document cue and an exam cue, and is a documents
\* request
IntentPriorityWitness ==
    /\ last.called
    /\ last.query = <<"e","x","a","m"," ","n","o","t","e","s">>
    /\ CueMatches("notes_request", last.query)
    /\ CueMatches("exam_info", last.query)
    /\ last.intent = "notes_request"

\* C3: process_query ends with exactly one response, of type text,
\* note_download or notes_list: a text carries a message only, a download
\* carries one note of the metadata, a list carries all the notes and at
\* least one.
OneResponse ==
    last.called =>
        /\ last.ret.type \in {"text", "note_download", "notes_list"}
        /\ last.ret.type = "text" =>
              last.ret.note = NoNote /\ last.ret.notes = <<>>
        /\ last.ret.type = "note_download" =>
              /\ Len(last.ret.note) = 1 /\ last.ret.notes = <<>>
              /\ Member(last.ret.note[1], notes)
        /\ last.ret.type = "notes_list" =>
              /\ last.ret.note = NoNote
              /\ last.ret.notes # <<>> /\ last.ret.notes = notes

\* A query is answered with a download while another note is stored
OneResponseWitness ==
    /\ last.called
    /\ last.ret.type = "note_download"
    /\ Len(notes) >= 2

-----------------------------------------------------------------------------
(* Properties of the unknown-query path *)

\* Some knowledge entry has fuzzy_match(query, question) > 75
Answered(knowledge_base, query) ==
    \E n \in 1..Len(knowledge_base) :
       RatioGt(fuzzy_match(query, knowledge_base[n].question), 75)

\* C4: on the unknown path with no knowledge entry over 75, the call appends
\* exactly one record holding the query to the end of the log, leaves the
\* earlier records as they were, and returns the fixed fallback text.
FallbackAppendsOne ==
    [][(/\ last'.called
        /\ last'.intent = "unknown"
        /\ ~Answered(knowledge, last'.query))
       => /\ unanswered' = unanswered \o <<[query |-> last'.query]>>
          /\ last'.ret = Text(FallbackMessage)]_vars

\* A query no entry of a non-empty knowledge base answers has been logged
\* behind an earlier, different one
FallbackAppendsOneWitness ==
    /\ last.called
    /\ last.intent = "unknown"
    /\ knowledge # <<>>
    /\ ~Answered(knowledge, last.query)
    /\ Len(unanswered) >= 2
    /\ unanswered[Len(unanswered)].query = last.query
    /\ unanswered[1].query # last.query
    /\ last.ret = Text(FallbackMessage)

\* The first position of the knowledge base whose question is over 75
FirstOver75(knowledge_base, query) ==
    CHOOSE n \in 1..Len(knowledge_base) :
       /\ RatioGt(fuzzy_match(query, knowledge_base[n].question), 75)
       /\ \A m \in 1..(n - 1) :
             ~RatioGt(fuzzy_match(query, knowledge_base[m].question), 75)

\* C5: on the unknown path, if some knowledge entry is over 75, the response
\* is the answer of the first such entry in the order of the collection,
\* verbatim as Text, and the log is left as it was.
FirstHitWins ==
    [][(/\ last'.called
        /\ last'.intent = "unknown"
        /\ Answered(knowledge, last'.query))
       => /\ last'.ret = Text(knowledge[FirstOver75(knowledge, last'.query)].answer)
          /\ unanswered' = unanswered]_vars

\* The answer given is that of the first entry over 75 although a later
\* entry has the higher ratio
FirstHitWinsWitness ==
    /\ last.called
    /\ last.intent = "unknown"
    /\ Answered(knowledge, last.query)
    /\ \E i, j \in 1..Len(knowledge) :
          /\ i < j
          /\ i = FirstOver75(knowledge, last.query)
          /\ RatioGt(fuzzy_match(last.query, knowledge[j].question), 75)
          /\ fuzzy_match(last.query, knowledge[j].question).m
                * fuzzy_match(last.query, knowledge[i].question).t
             > fuzzy_match(last.query, knowledge[i].question).m
                * fuzzy_match(last.query, knowledge[j].question).t
          /\ knowledge[i].answer # knowledge[j].answer
          /\ last.ret = Text(knowledge[i].answer)

\* C6: process_query leaves info, the notes metadata, the knowledge base and
\* the synonym table as they were; it changes the unanswered-queries log
\* only on the unknown path when no knowledge entry matches.
OnlyTheLogChanges ==
    [][last'.called
       => /\ UNCHANGED <<info, notes, knowledge, synonyms>>
          /\ unanswered' # unanswered
                => last'.intent = "unknown" /\ ~Answered(knowledge, last'.query)]_vars

\* A call on the unknown path that a knowledge entry answered, with a
\* logged query still in the log
OnlyTheLogChangesWitness ==
    /\ last.called
    /\ last.intent = "unknown"
    /\ Answered(knowledge, last.query)
    /\ unanswered # <<>>
    /\ last.trace = <<"direct_match", "detect_intent", "unknown_query">>

\* C7: a read-modify-write of the unanswered-queries log is not interleaved
\* with another writer: what a session saves is the file as it is plus the
\* session's record, and what the admin's delete saves is the file as it is
\* less one record, so no appended record is lost and no deleted record
\* comes back.
NoLostUpdate ==
    [][/\ \A s \in Sessions :
             (sess[s].pc = "loaded" /\ sess'[s].pc = "ready")
             => unanswered' = unanswered \o <<[query |-> sess[s].query]>>
       /\ (sess["admin"].pc = "loaded" /\ sess'["admin"].pc = "ready")
             => \E idx \in 1..Len(unanswered) : unanswered' = Pop(unanswered, idx)]_vars

-----------------------------------------------------------------------------
(* Properties of the notes metadata *)

\* C8: note ids are unique and monotonically assigned: no two notes of the
\* metadata have the same id, and the id add_note assigns is greater than
\* the id of every note stored before.
IdsUniqueAndIncreasing ==
    [][/\ \A i, j \in 1..Len(notes') : i # j => notes'[i].id # notes'[j].id
       /\ Len(notes') > Len(notes)
             => \A i \in 1..Len(notes) : notes'[Len(notes')].id > notes[i].id]_vars

-----------------------------------------------------------------------------
(* Properties of the category-scoped matcher *)

\* The category the last call's intent selected
CategoryOfLast == IntentCategory(last.intent)

\* The score of item i of the selected category for the last query
ScoreOfLast(i) == InfoScore(preprocess_text(last.query), info[CategoryOfLast][i])

\* The key: value rendering of item i of the selected category
LineOfLast(i) ==
    KeyValue(info[CategoryOfLast][i].key, info[CategoryOfLast][i].value)

\* C9: on a non-empty category the scoped matcher returns one record, one of
\* the highest score, when that score is over 5, and otherwise every record
\* of the category as key: value lines in stored order; never another subset.
BestOrAll ==
    (last.called /\ last.intent \in InfoIntents
       /\ CategoryOfLast \in DOMAIN info /\ info[CategoryOfLast] # <<>>) =>
        \/ \E i \in 1..Len(info[CategoryOfLast]) :
              /\ ScoreGtInt(ScoreOfLast(i), 5)
              /\ \A j \in 1..Len(info[CategoryOfLast]) :
                    ~ScoreGt(ScoreOfLast(j), ScoreOfLast(i))
              /\ last.ret = Text(LineOfLast(i))
        \/ /\ \A i \in 1..Len(info[CategoryOfLast]) : ~ScoreGtInt(ScoreOfLast(i), 5)
           /\ last.ret =
                 Text(Concat([i \in 1..Len(info[CategoryOfLast]) |->
                                 LineOfLast(i) \o <<"\n", "\n">>]))

\* One record of a category of two or more is returned, its score over 5
BestOrAllWitness ==
    /\ last.called /\ last.intent \in InfoIntents
    /\ CategoryOfLast \in DOMAIN info
    /\ Len(info[CategoryOfLast]) >= 2
    /\ \E i \in 1..Len(info[CategoryOfLast]) :
          /\ ScoreGtInt(ScoreOfLast(i), 5)
          /\ last.ret = Text(LineOfLast(i))

\* C10: when the intent selects a category that is absent or has no items,
\* the response is the Text "No ... information is available yet." and no
\* item is scored.
EmptyCategoryMessage ==
    (last.called /\ last.intent \in InfoIntents
       /\ (CategoryOfLast \notin DOMAIN info \/ info[CategoryOfLast] = <<>>)) =>
        /\ last.ret = Text(NoInfoMessage(CategoryOfLast))
        /\ ~Member("score_records", last.trace)

\* The intent selected a category the file does not have
EmptyCategoryMessageWitness ==
    /\ last.called /\ last.intent \in InfoIntents
    /\ CategoryOfLast \notin DOMAIN info
    /\ last.ret = Text(NoInfoMessage(CategoryOfLast))
    /\ last.trace = <<"direct_match", "detect_intent", "info_request">>

-----------------------------------------------------------------------------
(* Properties of the global matcher *)

\* The preprocessed query of the last call and its expanded words
CleanOfLast == preprocess_text(last.query)

WordsOfLast == ExpandedWords(synonyms, CleanOfLast)

\* The dict records of the standard categories, in the order the loops
\* visit them
StdRecords ==
    SelectSeq(ItemsInOrder(info, 1),
              LAMBDA e : e.category \in Range(StdCategories) /\ e.item.dict)

\* The accumulated scores of the standard records for the last query, as a
\* sequence
StdScoresOfLast ==
    <<>> \o [i \in 1..Len(StdRecords) |->
                DirectScore(WordsOfLast, CleanOfLast,
                            StdRecords[i].item.key, StdRecords[i].item)]

\* Record i is the one the loop tracks: no record scores more, and none
\* before it scores as much
TrackedBest(scores, i) ==
    /\ \A j \in 1..Len(scores) : scores[j] <= scores[i]
    /\ \A j \in 1..(i - 1) : scores[j] < scores[i]

\* Some custom category's key contains, or is contained in, a term of the
\* last query: the pass returns from inside the loop (lines 484-491)
CustomBypass ==
    \E i \in 1..Len(InfoGet(info, "custom_categories")) :
       /\ ~info["custom_categories"][i].dict
       /\ CustomHit("custom_categories", info["custom_categories"][i].key, WordsOfLast)

\* One of the record's keywords is a word of the query
KeywordIsQueryWord(i) ==
    \E k \in 1..Len(StdRecords[i].item.keywords) :
       StdRecords[i].item.keywords[k] \in Range(Split(CleanOfLast))

\* The pass returned the tracked record if its score is over 15 and nothing
\* otherwise, and a record with a keyword of the query scores over 15
BestAsClaimed(scores, direct) ==
    /\ \A i \in 1..Len(scores) :
          TrackedBest(scores, i) =>
             IF scores[i] > 15
             THEN /\ direct.hit
                  /\ last.ret = Text(KeyValue(StdRecords[i].item.key,
                                              StdRecords[i].item.value))
                  /\ last.trace = <<"direct_match">>
             ELSE /\ ~direct.hit
                  /\ Member("detect_intent", last.trace)
    /\ scores = <<>> =>
          /\ ~direct.hit
          /\ Member("detect_intent", last.trace)
    /\ \A i \in 1..Len(scores) :
          KeywordIsQueryWord(i) =>
             /\ scores[i] > 15
             /\ direct.hit
             /\ direct.score >= scores[i]

CustomOfLast == InfoGet(info, "custom_categories")

\* Custom category i is a plain string whose key matches a term of the last
\* query
CustomMatches(i) ==
    /\ ~CustomOfLast[i].dict
    /\ CustomHit("custom_categories", CustomOfLast[i].key, WordsOfLast)

\* C12: when the key of a custom category contains, or is contained in, a
\* term of the expanded query, the global pass returns the Text "key: value"
\* of the first such category in stored order, whatever the records of the
\* standard categories scored, and nothing else is run.
CustomBypassesScoring ==
    last.called =>
        \A i \in 1..Len(CustomOfLast) :
           (/\ CustomMatches(i)
            /\ \A j \in 1..(i - 1) : ~CustomMatches(j)) =>
              /\ DirectOfLast.hit
              /\ last.ret = Text(KeyValue(CustomOfLast[i].key, CustomOfLast[i].value))
              /\ last.ret.type = "text"
              /\ last.trace = <<"direct_match">>

\* Two custom categories match and a standard record scores over 15: the
\* response is the custom category stored first
CustomBypassesScoringWitness ==
    /\ last.called
    /\ \E i, j \in 1..Len(CustomOfLast) :
          /\ i < j
          /\ CustomMatches(i) /\ CustomMatches(j)
          /\ \A k \in 1..(i - 1) : ~CustomMatches(k)
          /\ last.ret = Text(KeyValue(CustomOfLast[i].key, CustomOfLast[i].value))
    /\ \E r \in 1..Len(StdRecords) : StdScoresOfLast[r] > 15

-----------------------------------------------------------------------------
(* Properties of the notes handler and of search_notes *)

\* What search_notes returns for the query of the last call
RankedOfLast == search_notes(synonyms, notes, last.query)

\* The three outcomes by what search_notes returns and what is stored
ThreeOutcomes(ranked) ==
    IF ranked # <<>>
    THEN last.ret = NoteDownload(DownloadMessage(ranked[1]), ranked[1])
    ELSE IF notes # <<>>
    THEN last.ret.type = "notes_list" /\ last.ret.notes = notes
    ELSE last.ret.type = "text" /\ last.ret.note = NoNote /\ last.ret.notes = <<>>

\* The query of the last call is one of note, notes, show notes, list notes
ListRequested == Member(preprocess_text(last.query), ListRequests)

\* C13 as stated: on the notes intent the response is a download of the top
\* note whenever search_notes returns one for the query, the list of all
\* notes when it returns none and notes exist, and a text when none exist.
DownloadWheneverRanked ==
    (last.called /\ Member("notes_request", last.trace)) =>
        ThreeOutcomes(RankedOfLast)

\* C13: on the notes intent, a query that is exactly note, notes, show notes
\* or list notes is answered without search_notes, by the list of all notes
\* or, when none exist, by a text; for any other query the response is a
\* download of the top note search_notes returns, the list of all notes when
\* it returns none and notes exist, and a text when none exist.
ListOrThreeOutcomes ==
    (last.called /\ Member("notes_request", last.trace)) =>
        IF ListRequested
        THEN /\ ~Member("search_notes", last.trace)
             /\ notes # <<>> => last.ret = NotesList(AllNotesMessage, notes)
             /\ notes = <<>> => last.ret = Text(NoNotesMessage)
        ELSE /\ Member("search_notes", last.trace)
             /\ ThreeOutcomes(RankedOfLast)

\* "notes" is answered by the list of all notes although search_notes
\* returns a note for it
ListOrThreeOutcomesWitness ==
    /\ last.called /\ Member("notes_request", last.trace)
    /\ ListRequested
    /\ RankedOfLast # <<>>
    /\ last.ret = NotesList(AllNotesMessage, notes)

\* The scores search_notes gives the notes of a list for the query of the
\* last call, as a sequence
NoteScoresOfLast(list) ==
    <<>> \o [n \in 1..Len(list) |-> NoteScore(WordsOfLast, CleanOfLast, list[n])]

\* ranked holds exactly the stored notes whose score is over 10, by score
\* descending and, at equal score, by uploaded_at descending
RankedAsClaimed(ranked, ranked_scores, stored_scores) ==
    /\ \A i \in 1..Len(ranked) :
          Member(ranked[i], notes) /\ ranked_scores[i] > 10
    /\ \A n \in 1..Len(notes) :
          stored_scores[n] > 10 => Member(notes[n], ranked)
    /\ Len(ranked) = Cardinality({n \in 1..Len(notes) : stored_scores[n] > 10})
    /\ \A i, j \in 1..Len(ranked) :
          i < j =>
             \/ ranked_scores[i] > ranked_scores[j]
             \/ /\ ranked_scores[i] = ranked_scores[j]
                /\ ranked[i].uploaded_at >= ranked[j].uploaded_at
    /\ ranked # <<>> => last.ret.note = <<ranked[1]>>

\* C14: search_notes returns exactly the notes whose score is over 10, by
\* score descending, and notes of equal score by uploaded_at descending; the
\* download the handler returns is the first of them.
RankedOver10 ==
    (last.called /\ Member("search_notes", last.trace)) =>
        RankedAsClaimed(RankedOfLast, NoteScoresOfLast(RankedOfLast),
                        NoteScoresOfLast(notes))

\* Two notes of equal score over 10, the one uploaded later stored last and
\* returned first
RankedOver10Witness ==
    /\ last.called /\ Member("search_notes", last.trace)
    /\ Len(notes) = 2
    /\ notes[1].uploaded_at < notes[2].uploaded_at
    /\ RankedOfLast = <<notes[2], notes[1]>>
    /\ NoteScoresOfLast(notes)[1] = NoteScoresOfLast(notes)[2]
    /\ last.ret.note = <<notes[2]>>

\* C15: a query that is exactly note, notes, show notes or list notes is
\* answered, on a non-empty collection, by all the notes ordered by upload
\* time descending, newest first, without scoring.
ListNewestFirst ==
    (last.called /\ Member("notes_request", last.trace)
       /\ ListRequested /\ notes # <<>>) =>
        /\ ~Member("search_notes", last.trace)
        /\ last.ret.type = "notes_list"
        /\ Len(last.ret.notes) = Len(notes)
        /\ \A n \in 1..Len(notes) : Member(notes[n], last.ret.notes)
        /\ \A i, j \in 1..Len(last.ret.notes) :
              i < j => last.ret.notes[i].uploaded_at >= last.ret.notes[j].uploaded_at

-----------------------------------------------------------------------------
(* NLPProcessor.expand_synonyms on the synonyms.json found at start-up *)

\* Groups in a synonyms.json
MaxGroups == 2

\* The terms the tables are written with
SynonymTerms == {<<"e","x","a","m">>, <<"t","e","s","t">>, <<"q","u","i","z">>}

\* The synonym lists of a group: up to two terms, none twice
SynonymLists ==
    {<<>>} \cup {<<a>> : a \in SynonymTerms}
    \cup {p \in SynonymTerms \X SynonymTerms : p[1] # p[2]}

SynonymGroups == [key : SynonymTerms, syns : SynonymLists]

\* The tables load_json can return: a dict has no key twice
SynonymTables ==
    UNION {{t \in [1..n -> SynonymGroups] :
              \A i, j \in 1..n : i # j => t[i].key # t[j].key} : n \in 0..MaxGroups}

\* The words expand_synonyms is called on: the terms, and a word of no group
Tokens == SynonymTerms \cup {<<"v","i","v","a">>}

\* NLPProcessor.__init__ on a data directory that has a synonyms.json
InitExpand ==
    /\ synonyms \in SynonymTables
    /\ info = DefaultInfo
    /\ notes = <<>>
    /\ knowledge = <<>>
    /\ unanswered = <<>>
    /\ now = 0
    /\ last = Idle
    /\ sess = [s \in Runs |-> Ready]
    /\ chats = create_new_chat(NoFiles, 0)
    /\ auth = DefaultAuth
    /\ session = InitialSession
    /\ save = NoSave

\* self.nlp_processor.expand_synonyms(word) on one word of a query
Expand(token) ==
    /\ last' = [called |-> TRUE, query |-> token,
                ret |-> expand_synonyms(synonyms, token),
                intent |-> "none", trace |-> <<"expand_synonyms">>]
    /\ UNCHANGED <<synonyms, info, notes, knowledge, unanswered, now, sess,
                 chats, auth, session, save>>

NextExpand == \E token \in Tokens : Expand(token)

SpecExpand == InitExpand /\ [][NextExpand]_vars

\* The term is the key of group g or in its synonym list
InGroup(term, g) == term = g.key \/ Member(term, g.syns)

\* C16: the expansion of a token holds the token and, for exactly the groups
\* that have the token as key or synonym, the key and the synonyms of the
\* group, and nothing else; a term pulled in is not expanded again; with one
\* group in the table every member of the group expands to the same set.
SingleHop ==
    last.called =>
        /\ last.query \in last.ret
        /\ \A term \in last.ret \cup Tokens :
              term \in last.ret <=>
                 \/ term = last.query
                 \/ \E g \in 1..Len(synonyms) :
                       InGroup(last.query, synonyms[g]) /\ InGroup(term, synonyms[g])
        /\ (Len(synonyms) = 1 /\ InGroup(last.query, synonyms[1])) =>
              \A term \in Tokens :
                 InGroup(term, synonyms[1]) =>
                    expand_synonyms(synonyms, term) = last.ret

\* A term pulled in by one group is the key or a synonym of a second group,
\* and a member of the second group is not in the expansion
SingleHopWitness ==
    /\ last.called
    /\ \E g, h \in 1..Len(synonyms) :
          /\ InGroup(last.query, synonyms[g])
          /\ ~InGroup(last.query, synonyms[h])
          /\ \E term \in last.ret : InGroup(term, synonyms[h])
          /\ \E term \in Tokens : InGroup(term, synonyms[h]) /\ term \notin last.ret

-----------------------------------------------------------------------------
(* NLPProcessor.preprocess_text and NLPProcessor.fuzzy_match on their own *)

\* Characters in a text given to preprocess_text
MaxText == 3

\* Characters in a string given to fuzzy_match
MaxWord == 3

\* The strings over a set of characters, up to a length
StringsOver(chars, n) == UNION {[1..k -> chars] : k \in 0..n}

\* The texts preprocess_text is called on: a capital, a small letter,
\* punctuation and whitespace
Texts == StringsOver({"H", "i", "!", " "}, MaxText)

\* The strings fuzzy_match is called on: words, and strings with no word
\* character
Words == StringsOver({"a", "b", "c"}, MaxWord) \cup {<<"!">>, <<" ">>}

\* query_clean = self.nlp_processor.preprocess_text(query). The function
\* keeps no state: a behaviour makes one call
Preprocess(text) ==
    /\ ~last.called
    /\ last' = [called |-> TRUE, query |-> text, ret |-> preprocess_text(text),
                intent |-> "none", trace |-> <<"preprocess_text">>]
    /\ UNCHANGED <<synonyms, info, notes, knowledge, unanswered, now, sess,
                 chats, auth, session, save>>

\* self.nlp_processor.fuzzy_match(word, keyword)
FuzzyMatch(query, target) ==
    /\ ~last.called
    /\ last' = [called |-> TRUE, query |-> <<query, target>>,
                ret |-> fuzzy_match(query, target),
                intent |-> "none", trace |-> <<"fuzzy_match">>]
    /\ UNCHANGED <<synonyms, info, notes, knowledge, unanswered, now, sess,
                 chats, auth, session, save>>

NextText ==
    \/ \E text \in Texts : Preprocess(text)
    \/ \E query \in Words, target \in Words : FuzzyMatch(query, target)

SpecText == InitDefault /\ [][NextText]_vars

\* C17: preprocess_text is idempotent, and its result is lowercase, has no
\* run of whitespace and no whitespace at either end.
NormalizeIdempotent ==
    (last.called /\ last.trace = <<"preprocess_text">>) =>
        /\ preprocess_text(last.ret) = last.ret
        /\ \A i \in 1..Len(last.ret) : last.ret[i] \notin Range(UpperAlpha)
        /\ \A i \in 1..(Len(last.ret) - 1) :
              ~(IsSpace(last.ret[i]) /\ IsSpace(last.ret[i + 1]))
        /\ last.ret # <<>> =>
              ~IsSpace(last.ret[1]) /\ ~IsSpace(last.ret[Len(last.ret)])

\* Two ratios, kept as fractions, are the same number
SameRatio(r, s) == r.m * s.t = s.m * r.t

\* C18: fuzzy_match is symmetric: fuzzy_match(a, b) = fuzzy_match(b, a) for
\* every pair of strings.
RatioSymmetric ==
    (last.called /\ last.trace = <<"fuzzy_match">>) =>
        SameRatio(last.ret, fuzzy_match(last.query[2], last.query[1]))

\* C19: fuzzy_match of two strings that are both empty after preprocess_text
\* is 0, and so over no threshold.
EmptyRatioIsZero ==
    (last.called /\ last.trace = <<"fuzzy_match">>
       /\ preprocess_text(last.query[1]) = <<>>
       /\ preprocess_text(last.query[2]) = <<>>) =>
        /\ last.ret.m = 0
        /\ ~RatioGt(last.ret, 0)

-----------------------------------------------------------------------------
(* Properties of the two record shapes *)

\* A plain-string record as the structured record of the same key:
\* {"value": s, "keywords": []}
AsStructured(item) ==
    IF item.dict THEN item ELSE [item EXCEPT !.dict = TRUE, !.keywords = <<>>]

\* info.json with every plain-string record replaced by its structured form
Structured(info_data) ==
    [c \in DOMAIN info_data |->
        [i \in 1..Len(info_data[c]) |-> AsStructured(info_data[c][i])]]

\* C20: a plain-string record and the structured record of the same key and
\* value with no keywords are equivalent: replacing one by the other changes
\* neither what the global matcher returns for a query nor what the
\* category-scoped matcher returns for it on any category.
EquivalentShapes ==
    last.called =>
        /\ try_direct_keyword_match(synonyms, Structured(info), last.query).hit
              = DirectOfLast.hit
        /\ try_direct_keyword_match(synonyms, Structured(info), last.query).ret
              = DirectOfLast.ret
        /\ \A n \in 1..Len(StdCategories) :
              handle_info_request(Structured(info), last.query, StdCategories[n]).ret
                 = handle_info_request(info, last.query, StdCategories[n]).ret

-----------------------------------------------------------------------------
(* The matchers on records with keywords of two words and keys that tie *)

\* The prompts typed while these records are managed
MatchQueries == {
    <<"t","e","s","t">>,                              \* "test"
    <<"m","i","d"," ","l","a","b">>,                  \* "mid lab"
    <<"m","i","d","t","e","r","m"," ","2","n","d">>,  \* "midterm 2nd"
    <<"f","a","c","u","l","t">>                       \* "facult"
}

\* What the admin submits in the "Add New Item" form
MatchInputs == {
    [category |-> "exam_dates", key |-> <<"L","a","b">>,
     value |-> <<"t","e","s","t"," ","1">>, keywords |-> <<"t","e","r","m"," ","2">>],
    [category |-> "exam_dates", key |-> <<"M","i","d">>,
     value |-> <<"t","e","s","t"," ","2">>, keywords |-> <<>>],
    [category |-> "faculty", key |-> <<"D","e","a","n">>,
     value |-> <<"r","o","o","m"," ","2">>, keywords |-> <<"t","e","r","m"," ","2">>]
}

\* One user at a time, and the admin adding records
NextMatch ==
    \/ \E query \in MatchQueries : ProcessQuery(query)
    \/ \E in \in MatchInputs : AddItem(in)

SpecMatch == InitDefault /\ [][NextMatch]_vars

\* No fixed keyword set matches the query of the last call
NoFixedIntent == FirstIntent(AllTerms(synonyms, Lower(last.query)), 1) = "none"

\* Some record of the category has a keyword that contains the lowercased
\* query, is contained in it, or is over 80 similar to it
KeywordHit(category) ==
    \E n \in 1..Len(InfoGet(info, category)) :
       /\ info[category][n].dict
       /\ \E k \in 1..Len(info[category][n].keywords) :
             \/ In(Lower(last.query), info[category][n].keywords[k])
             \/ In(info[category][n].keywords[k], Lower(last.query))
             \/ RatioGt(fuzzy_match(Lower(last.query), info[category][n].keywords[k]), 80)

\* C21: when no fixed keyword set matches, detect_intent walks exam_dates,
\* faculty, schedule, events in that order; the first category with a keyword
\* hit gives the intent, and process_query answers with the category-scoped
\* matcher on that category; with no hit the intent is unknown.
DynamicFallback ==
    (last.called /\ Member("detect_intent", last.trace) /\ NoFixedIntent) =>
        /\ \A n \in 1..Len(StdCategories) :
              (KeywordHit(StdCategories[n])
                 /\ \A m \in 1..(n - 1) : ~KeywordHit(StdCategories[m])) =>
                 /\ last.intent = CategoryIntent(StdCategories[n])
                 /\ Member("info_request", last.trace)
                 /\ last.ret = handle_info_request(info, last.query, StdCategories[n]).ret
        /\ (\A n \in 1..Len(StdCategories) : ~KeywordHit(StdCategories[n])) =>
              /\ last.intent = "unknown"
              /\ Member("unknown_query", last.trace)

\* Keywords of exam_dates and of faculty both hit, and the query is answered
\* from exam_dates
DynamicFallbackWitness ==
    /\ last.called /\ Member("detect_intent", last.trace) /\ NoFixedIntent
    /\ KeywordHit("exam_dates") /\ KeywordHit("faculty")
    /\ last.intent = "exam_info"
    /\ last.ret = handle_info_request(info, last.query, "exam_dates").ret

\* The keyword set of position n matches in either direction: a term of the
\* query contains one of its words, or one of its words contains a term
MatchesEitherWay(n) ==
    \E term \in AllTerms(synonyms, Lower(last.query)) :
       \E w \in Range(IntentKeywords[n].words) : In(w, term) \/ In(term, w)

\* C22: a fixed intent's keyword set matches when a term of the query
\* contains one of its keywords or one of its keywords contains the term; the
\* first set that matches so gives the intent, so that a term that is a
\* proper prefix of a keyword selects the intent.
EitherDirection ==
    (last.called /\ Member("detect_intent", last.trace)) =>
        \A n \in 1..Len(IntentKeywords) :
           (MatchesEitherWay(n) /\ \A m \in 1..(n - 1) : ~MatchesEitherWay(m)) =>
              last.intent = IntentKeywords[n].intent

-----------------------------------------------------------------------------
(* Properties of process_query as a function of the stores *)

\* C23: the response to a query is a function of the query and of the
\* synonyms, info.json, the notes metadata and the knowledge base as they are
\* at the call: it is the response the same call gives on an empty
\* unanswered-queries log, whatever was asked before.
ResponseOfSnapshot ==
    last.called =>
        last.ret = process_query(synonyms, info, notes, knowledge, <<>>, last.query).ret

\* The query was asked and logged before, and is logged again with the same
\* response
ResponseOfSnapshotWitness ==
    /\ last.called
    /\ Member("log_unanswered", last.trace)
    /\ Len(unanswered) >= 2
    /\ unanswered[Len(unanswered) - 1] = Unanswered(last.query)
    /\ unanswered[Len(unanswered)] = Unanswered(last.query)
    /\ last.ret = Text(FallbackMessage)

\* What the keywords and the key of standard record i add for the terms of
\* the last query, without the boost
SignalOfLast(i) ==
    Sum([k \in 1..Len(StdRecords[i].item.keywords) |->
            Sum([word \in WordsOfLast |->
                    KeywordPoints(word, StdRecords[i].item.keywords[k])])])
    + Sum([word \in WordsOfLast |-> KeyPoints(word, Lower(StdRecords[i].item.key))])

\* Every record scores its signal plus 0 or 5, a record without any signal
\* scores at most 5, and a record the scoring returns has some signal
BoostAsClaimed(scores, direct) ==
    /\ \A i \in 1..Len(scores) :
          /\ scores[i] - SignalOfLast(i) \in {0, 5}
          /\ SignalOfLast(i) = 0 => scores[i] <= 5
    /\ (direct.hit /\ ~CustomBypass) =>
          \A i \in 1..Len(scores) :
             TrackedBest(scores, i) =>
                /\ SignalOfLast(i) > 0
                /\ last.ret = Text(KeyValue(StdRecords[i].item.key,
                                            StdRecords[i].item.value))

\* C24: the boost for a question pattern is added once to a record's score,
\* 5 points whatever the number of terms and of patterns in the query, so a
\* record whose keywords and key add nothing scores at most 5 and is not the
\* record the global pass returns.
BoostOncePerRecord ==
    last.called => BoostAsClaimed(StdScoresOfLast, DirectOfLast)

\* A query of two terms with a question pattern: some record scores exactly
\* the boost, and the pass returns nothing
BoostOncePerRecordWitness ==
    /\ last.called
    /\ Cardinality(WordsOfLast) >= 2
    /\ PatternBoost(CleanOfLast) = 5
    /\ \E i \in 1..Len(StdRecords) :
          SignalOfLast(i) = 0 /\ StdScoresOfLast[i] = 5
    /\ ~DirectOfLast.hit

-----------------------------------------------------------------------------
(* Ties in the two matchers *)

\* Item i of the selected category is the one the scoped loop tracks: no
\* item scores more, and none before it scores as much
TrackedItem(i) ==
    /\ \A j \in 1..Len(info[CategoryOfLast]) : ~ScoreGt(ScoreOfLast(j), ScoreOfLast(i))
    /\ \A j \in 1..(i - 1) : ScoreGt(ScoreOfLast(i), ScoreOfLast(j))

\* The global pass returned the first of the records of maximal score
FirstOfGlobal(scores) ==
    \A i \in 1..Len(scores) :
       TrackedBest(scores, i) =>
          last.ret = Text(KeyValue(StdRecords[i].item.key, StdRecords[i].item.value))

\* The scoped pass returned the first of the items of maximal score
FirstOfScoped ==
    \A i \in 1..Len(info[CategoryOfLast]) :
       (TrackedItem(i) /\ ScoreGtInt(ScoreOfLast(i), 5)) =>
          last.ret = Text(LineOfLast(i))

\* C25: both matchers break ties by position. When the global pass returns a
\* scored record it is the first, in the order exam_dates, faculty, schedule,
\* events and then stored order, of those with the highest score; when the
\* scoped pass returns one item it is the first in stored order of those with
\* the highest score. A later record of equal score does not replace it.
FirstWins ==
    /\ (last.called /\ last.trace = <<"direct_match">> /\ ~CustomBypass) =>
          FirstOfGlobal(StdScoresOfLast)
    /\ (last.called /\ last.intent \in InfoIntents
          /\ CategoryOfLast \in DOMAIN info /\ info[CategoryOfLast] # <<>>) =>
          FirstOfScoped

\* Two records with different lines tie at the highest score of the global
\* pass, and the earlier one is returned
FirstWinsWitness ==
    /\ last.called /\ last.trace = <<"direct_match">> /\ ~CustomBypass
    /\ \E i, j \in 1..Len(StdRecords) :
          /\ i < j
          /\ TrackedBest(StdScoresOfLast, i)
          /\ StdScoresOfLast[j] = StdScoresOfLast[i]
          /\ StdRecords[i].item.key # StdRecords[j].item.key
          /\ last.ret = Text(KeyValue(StdRecords[i].item.key, StdRecords[i].item.value))

-----------------------------------------------------------------------------
(* One browser session: the sidebar, the chat page and the admin login *)

MaxMessages == 10

MaxStored == 12

\* The prompts typed into st.chat_input of the session
ChatPrompts == {
    <<"H","i","!">>,                              \* "Hi!"
    <<"s","t","r","e","s","s">>                   \* "stress"
}

\* main() renders the chat page: the page is 'chat', or it is neither the
\* login page nor the panel of an authenticated session and main() falls
\* back to the chat
ChatShown ==
    \/ session.page = "chat"
    \/ /\ session.page # "admin_login"
       /\ ~(session.page = "admin_panel" /\ session.authenticated)

\* main() renders the login page
LoginShown == session.page = "admin_login"

\* main() renders the admin panel
PanelShown == session.page = "admin_panel" /\ session.authenticated

\* The two messages a prompt appends to the session
Exchange(query, response) ==
    <<[role |-> "user", content |-> query],
      [role |-> "assistant", content |-> response.message]>>

\* if len(chat_messages) % 5 == 0: every message of the session is saved
AutoSave(files, chat_id, chat_messages, t) ==
    IF Len(chat_messages) % 5 = 0
    THEN SaveMessages(files, chat_id, chat_messages, t)
    ELSE files

\* render_chat_interface on a prompt: the user message, process_query, the
\* assistant message and the periodic save
Prompt(query) ==
    /\ ChatShown
    /\ Len(session.chat_messages) + 2 <= MaxMessages
    /\ \E r \in {process_query(synonyms, info, notes, knowledge, unanswered, query)} :
       \E chat_messages \in {session.chat_messages \o Exchange(query, r.ret)} :
          /\ Len(r.log) <= MaxLog
          /\ unanswered' = r.log
          /\ last' = [called |-> TRUE, query |-> query, ret |-> r.ret,
                      intent |-> r.intent, trace |-> r.trace]
          /\ session' = [session EXCEPT !.page = "chat",
                                        !.chat_messages = chat_messages]
          /\ chats' = AutoSave(chats, session.current_chat_id, chat_messages, now)
          /\ Len(chats'[session.current_chat_id].messages) <= MaxStored
    /\ UNCHANGED <<synonyms, info, notes, knowledge, now, sess, auth, save>>

\* What the sidebar saves before it leaves the current chat
SavedOnLeave(t) ==
    IF session.chat_messages # <<>>
    THEN SaveMessages(chats, session.current_chat_id, session.chat_messages, t)
    ELSE chats

\* render_sidebar, "New Chat": the session's messages are saved, then a chat
\* is created and becomes the current one
NewChat ==
    \E t \in {now, now + 1} :
       /\ t <= MaxClock
       /\ now' = t
       /\ \E saved \in {SavedOnLeave(t)} :
             /\ \A chat_id \in DOMAIN saved : Len(saved[chat_id].messages) <= MaxStored
             /\ chats' = create_new_chat(saved, t)
       /\ session' = [session EXCEPT !.current_chat_id = ChatId(t),
                                     !.chat_messages = <<>>]
       /\ UNCHANGED <<synonyms, info, notes, knowledge, unanswered, last, sess,
                      auth, save>>

\* render_sidebar, the button of a chat of the history: the session's
\* messages are saved, then the chat is loaded
LoadChat(chat_id) ==
    /\ chat_id \in DOMAIN chats
    /\ \E saved \in {SavedOnLeave(now)} :
          /\ \A i \in DOMAIN saved : Len(saved[i].messages) <= MaxStored
          /\ chats' = saved
          /\ session' = [session EXCEPT !.current_chat_id = chat_id,
                                        !.chat_messages = LoadedMessages(saved[chat_id])]
    /\ UNCHANGED <<synonyms, info, notes, knowledge, unanswered, now, last, sess,
                   auth, save>>

NextChat ==
    \/ \E query \in ChatPrompts : Prompt(query)
    \/ NewChat
    \/ \E chat_id \in DOMAIN chats : LoadChat(chat_id)

SpecChat == InitDefault /\ [][NextChat]_vars

-----------------------------------------------------------------------------
(* Properties of the saved chats *)

\* The messages of a chat file as the session holds them: role and content
Stored(chat_id) == LoadedMessages(chats[chat_id])

\* C26: whenever a step adds messages to a chat's file, the file then holds
\* exactly the messages of the session, before or after the step, in order
\* and each once: saving never duplicates.
SavedExactlyOnce ==
    [][\A chat_id \in DOMAIN chats \cap DOMAIN chats' :
          Len(chats'[chat_id].messages) > Len(chats[chat_id].messages) =>
             LoadedMessages(chats'[chat_id])
                \in {session.chat_messages, session'.chat_messages}]_vars

\* The messages of the session that the current chat's file does not hold
Unsaved ==
    IF session.current_chat_id \in DOMAIN chats
       /\ Len(Stored(session.current_chat_id)) <= Len(session.chat_messages)
    THEN Len(session.chat_messages) - Len(Stored(session.current_chat_id))
    ELSE 0

\* C27: the session is saved each time its number of messages reaches a
\* multiple of 5, so at most 4 of its messages are not in the chat's file.
AtMostFourUnsaved == Unsaved <= 4

-----------------------------------------------------------------------------
(* The admin login of the session *)

\* What is typed into the password fields
Passwords == {
    <<"1","2","3">>,                              \* "123"
    <<"a","b","c","d">>,                          \* "abcd"
    <<"a","b">>                                   \* "ab"
}

\* render_sidebar, "Admin Panel"
OpenAdminLogin ==
    /\ session' = [session EXCEPT !.page = "admin_login"]
    /\ UNCHANGED <<synonyms, info, notes, knowledge, unanswered, now, last, sess,
                   chats, auth, save>>

\* The login form accepting whatever is typed
LoginAnyPassword(password) ==
    /\ LoginShown
    /\ last' = [called |-> TRUE, query |-> password, ret |-> hash_password(password),
                intent |-> "none", trace |-> <<"hash_password">>]
    /\ session' = [session EXCEPT !.authenticated = TRUE, !.page = "admin_panel"]
    /\ UNCHANGED <<synonyms, info, notes, knowledge, unanswered, now, sess,
                   chats, auth, save>>

\* render_admin_login, "Login": last holds the password and its hash
Login(password) ==
    /\ LoginShown
    /\ last' = [called |-> TRUE, query |-> password, ret |-> hash_password(password),
                intent |-> "none", trace |-> <<"hash_password">>]
    /\ session' = IF hash_password(password) = auth.password_hash
                  THEN [session EXCEPT !.authenticated = TRUE, !.page = "admin_panel"]
                  ELSE session
    /\ UNCHANGED <<synonyms, info, notes, knowledge, unanswered, now, sess,
                   chats, auth, save>>

\* render_admin_login, "Back to Chat"
BackFromLogin ==
    /\ LoginShown
    /\ session' = [session EXCEPT !.page = "chat"]
    /\ UNCHANGED <<synonyms, info, notes, knowledge, unanswered, now, last, sess,
                   chats, auth, save>>

\* render_admin_panel, "Back to Chat": the session stays authenticated
BackToChat ==
    /\ PanelShown
    /\ session' = [session EXCEPT !.page = "chat"]
    /\ UNCHANGED <<synonyms, info, notes, knowledge, unanswered, now, last, sess,
                   chats, auth, save>>

\* render_admin_panel, "Logout"
Logout ==
    /\ PanelShown
    /\ session' = [session EXCEPT !.authenticated = FALSE, !.page = "chat"]
    /\ UNCHANGED <<synonyms, info, notes, knowledge, unanswered, now, last, sess,
                   chats, auth, save>>

\* render_admin_settings, "Change Password": the current password must be
\* right, the two new ones equal and of 3 characters or more
ChangePassword(current_password, new_password, confirm_password) ==
    /\ PanelShown
    /\ auth' = IF /\ hash_password(current_password) = auth.password_hash
                  /\ new_password = confirm_password
                  /\ Len(new_password) >= 3
               THEN [auth EXCEPT !.password_hash = hash_password(new_password)]
               ELSE auth
    /\ UNCHANGED <<synonyms, info, notes, knowledge, unanswered, now, last, sess,
                   chats, session, save>>

NextAdmin ==
    \/ \E query \in ChatPrompts : Prompt(query)
    \/ OpenAdminLogin
    \/ \E password \in Passwords : Login(password)
    \/ BackFromLogin
    \/ BackToChat
    \/ Logout
    \/ \E current_password, new_password, confirm_password \in Passwords :
          ChangePassword(current_password, new_password, confirm_password)

SpecAdmin == InitDefault /\ [][NextAdmin]_vars

\* C28: the page is 'admin_panel' only in an authenticated session; a step
\* makes the session authenticated only from the login page, with a password
\* whose hash is the one auth.json holds, and it opens the panel; a step that
\* ends the authentication leaves the session on the chat page.
PanelOnlyAuthenticated ==
    /\ [](session.page = "admin_panel" => session.authenticated)
    /\ [][/\ (~session.authenticated /\ session'.authenticated) =>
                /\ LoginShown
                /\ last'.trace = <<"hash_password">>
                /\ last'.ret = hash_password(last'.query)
                /\ last'.ret = auth.password_hash
                /\ session'.page = "admin_panel"
          /\ (session.authenticated /\ ~session'.authenticated) =>
                /\ PanelShown
                /\ session'.page = "chat"]_vars

\* The panel was opened by a login with a password set by Change Password
PanelOnlyAuthenticatedWitness ==
    /\ session.page = "admin_panel" /\ session.authenticated
    /\ last.trace = <<"hash_password">>
    /\ last.ret = auth.password_hash
    /\ auth # DefaultAuth

-----------------------------------------------------------------------------
(* DataManager.save_json, one step at a time. save holds the file at
   filepath (target), the file at temp_path (temp), the text json.dump
   writes (data), the target as the call found it (previous), the position
   of the call (pc) and the statement that raised (failed). Opening the
   temporary file, writing to it and renaming it may each raise; unlink in
   the except clause succeeds. *)

MaxData == 2

\* A path with no file
Absent == [exists |-> FALSE, content |-> <<>>]

\* A file and its content
File(content) == [exists |-> TRUE, content |-> content]

\* What json.dump writes, as the sequence of the chunks it passes to f.write
Dumps == StringsOver({"a", "b"}, MaxData) \ {<<>>}

\* The files save_json can find at filepath and at temp_path
TargetFiles == {Absent} \cup {File(content) : content \in Dumps}

TempFiles == {Absent, File(<<"a">>)}

\* save_json(filepath, data) is called
SaveJson(target, temp, data) ==
    /\ save.pc = "idle"
    /\ save' = [pc |-> "open", target |-> target, temp |-> temp, data |-> data,
                previous |-> target, failed |-> "none"]
    /\ UNCHANGED <<synonyms, info, notes, knowledge, unanswered, now, last, sess,
                   chats, auth, session>>

\* open(temp_path, 'w'): the temporary file is made, or emptied
OpenTemp ==
    /\ save.pc = "open"
    /\ save' = [save EXCEPT !.pc = "dump", !.temp = File(<<>>)]
    /\ UNCHANGED <<synonyms, info, notes, knowledge, unanswered, now, last, sess,
                   chats, auth, session>>

\* json.dump: the next chunk is written to the temporary file
WriteChunk ==
    /\ save.pc = "dump"
    /\ Len(save.temp.content) < Len(save.data)
    /\ save' = [save EXCEPT !.temp = File(Append(save.temp.content,
                                                 save.data[Len(save.temp.content) + 1]))]
    /\ UNCHANGED <<synonyms, info, notes, knowledge, unanswered, now, last, sess,
                   chats, auth, session>>

\* The with block ends once everything is written: the file is closed
CloseTemp ==
    /\ save.pc = "dump"
    /\ save.temp.content = save.data
    /\ save' = [save EXCEPT !.pc = "replace"]
    /\ UNCHANGED <<synonyms, info, notes, knowledge, unanswered, now, last, sess,
                   chats, auth, session>>

\* temp_path.replace(filepath): the rename, in one step; save_json returns
ReplaceTarget ==
    /\ save.pc = "replace"
    /\ save' = [save EXCEPT !.pc = "returned", !.target = save.temp, !.temp = Absent]
    /\ UNCHANGED <<synonyms, info, notes, knowledge, unanswered, now, last, sess,
                   chats, auth, session>>

\* A statement of the try block raises: open, a write of json.dump, or
\* replace
Raise ==
    /\ save.pc \in {"open", "dump", "replace"}
    /\ save' = [save EXCEPT !.pc = "except", !.failed = save.pc]
    /\ UNCHANGED <<synonyms, info, notes, knowledge, unanswered, now, last, sess,
                   chats, auth, session>>

\* An except clause that raises without the unlink
ExceptRaiseOnly ==
    /\ save.pc = "except"
    /\ save' = [save EXCEPT !.pc = "raised"]
    /\ UNCHANGED <<synonyms, info, notes, knowledge, unanswered, now, last, sess,
                   chats, auth, session>>

\* except Exception as e: if temp_path.exists(): temp_path.unlink(); raise e
Except ==
    /\ save.pc = "except"
    /\ save' = [save EXCEPT !.pc = "raised",
                            !.temp = IF save.temp.exists THEN Absent ELSE save.temp]
    /\ UNCHANGED <<synonyms, info, notes, knowledge, unanswered, now, last, sess,
                   chats, auth, session>>

NextSave ==
    \/ \E target \in TargetFiles, temp \in TempFiles, data \in Dumps :
          SaveJson(target, temp, data)
    \/ OpenTemp
    \/ WriteChunk
    \/ CloseTemp
    \/ ReplaceTarget
    \/ Raise
    \/ Except

SpecSave == InitDefault /\ [][NextSave]_vars

\* C29: during and after a save_json call the file at filepath holds either
\* all of what it held before the call or all of the new data, the latter
\* only once the call has returned; a call in which a statement raised ends
\* by raising, with the file as before the call and no temporary file left;
\* a call that returns leaves the new data and no temporary file.
AtomicWrite ==
    save.pc # "idle" =>
       /\ save.target \in {save.previous, File(save.data)}
       /\ save.pc # "returned" => save.target = save.previous
       /\ save.failed # "none" => save.pc \in {"except", "raised"}
       /\ save.pc = "raised" =>
             /\ save.failed # "none"
             /\ save.target = save.previous
             /\ ~save.temp.exists
       /\ save.pc = "returned" =>
             /\ save.target = File(save.data)
             /\ ~save.temp.exists

\* json.dump raised while it wrote data of two chunks over an existing file
\* of another content: the call has raised, the file is the one before the
\* call and the temporary file is gone
AtomicWriteWitness ==
    /\ save.pc = "raised"
    /\ save.failed = "dump"
    /\ Len(save.data) >= 2
    /\ save.previous.exists
    /\ save.previous # File(save.data)
    /\ save.target = save.previous
    /\ ~save.temp.exists

-----------------------------------------------------------------------------
(* Properties of converted queries *)

\* The step adds an entry to the knowledge base
EntryAdded == Len(knowledge') > Len(knowledge)

\* The step is a process_query call: last' holds it
QueryStep == last'.called /\ (last' # last \/ unanswered' # unanswered)

\* Some entry of the knowledge base has the query as its question
HasEntry(query) == \E i \in 1..Len(knowledge) : knowledge[i].question = query

\* The questions the "Add New Q&A" and the edit forms can give an entry
FormQuestions == {in.question : in \in QAInputs}

\* C30: a step that adds an entry whose question no form supplied is a
\* conversion: the question is the query of an entry of the log, that entry
\* is removed from the log and the entry, with a non-empty answer, is the
\* last of the knowledge base. From then on, as long as an entry with that
\* question is in the knowledge base, a call with the same query that
\* reaches _handle_unknown_query is answered with the answer of an entry of
\* the knowledge base and appends nothing to the log.
ConvertedIsAnswered ==
    [][/\ (EntryAdded /\ knowledge'[Len(knowledge')].question \notin FormQuestions) =>
             \E idx \in 1..Len(unanswered) :
                /\ unanswered' = Pop(unanswered, idx)
                /\ knowledge' = Append(knowledge,
                                       QA(unanswered[idx].query,
                                          knowledge'[Len(knowledge')].answer))
                /\ knowledge'[Len(knowledge')].answer # <<>>
       /\ (QueryStep /\ Member("unknown_query", last'.trace) /\ HasEntry(last'.query)) =>
             /\ unanswered' = unanswered
             /\ ~Member("log_unanswered", last'.trace)
             /\ \E j \in 1..Len(knowledge) : last'.ret = Text(knowledge[j].answer)]_vars

\* A query that was logged and converted is asked again: it reaches
\* _handle_unknown_query, is answered with the converted answer and is not
\* in the log
ConvertedIsAnsweredWitness ==
    /\ last.called
    /\ last.trace = <<"direct_match", "detect_intent", "unknown_query">>
    /\ last.query \notin FormQuestions
    /\ \E i \in 1..Len(knowledge) :
          /\ knowledge[i].question = last.query
          /\ last.ret = Text(knowledge[i].answer)
    /\ \A k \in 1..Len(unanswered) : unanswered[k].query # last.query

\* The statement without the case of a query logged more than once: after
\* the conversion no entry of the log has the converted query
ConvertRemovesQuery ==
    [][(EntryAdded /\ knowledge'[Len(knowledge')].question \notin FormQuestions) =>
          \A k \in 1..Len(unanswered') :
             unanswered'[k].query # knowledge'[Len(knowledge')].question]_vars

====
